---- MODULE Spec2Model ----
(***************************************************************************)
(* Conversational context retention engine                                 *)
(* (app/services/mcp/context_manager.py) and the session layer that wraps  *)
(* one engine per conversation (app/services/mcp/session_manager.py,       *)
(* app/services/mcp/conversation_service.py).                              *)
(*                                                                         *)
(* Conventions of the model                                                *)
(*   - a datetime is an integer number of minutes; a timedelta is a        *)
(*     number of minutes;                                                  *)
(*   - an importance score is an integer number of tenths (0.1 is 1,       *)
(*     1.0 is 10), so the float comparisons of the code are exact;         *)
(*   - a Python Optional is a sequence of length 0 (None) or 1.            *)
(***************************************************************************)
EXTENDS Integers, Sequences, FiniteSets, Bags, TLC

VARIABLES
    now,        \* datetime.utcnow()
    mgr,        \* the ContextManager instance
    nextId,     \* number of uuid4() values drawn so far, plus one
    ret,        \* the last operation, its arguments and what it returned
    db,                     \* conversation_sessions rows, by session id
    files,                  \* persistence_dir: <session id>.json, by session id
    heap,                   \* the live ContextManager objects, by address
    active_sessions,        \* keys of SessionManager._active_sessions
    context_managers,       \* SessionManager._context_managers: id -> address
    conversation_managers,  \* ConversationService._context_managers: id -> address
    calls       \* the frames of the calls in flight: method, arguments, where suspended

session_vars ==
    <<db, files, heap, active_sessions, context_managers, conversation_managers,
      calls>>

vars == <<now, mgr, nextId, ret, session_vars>>

(***************************************************************************)
(* Bounds of the model.                                                    *)
(***************************************************************************)
MaxTime == 130
MaxAdds == 2
MaxStored == 2
MaxEvictAdds == 4
MaxEvictCap == 2
MaxEvictMinutes == 1
MaxQueryAdds == 2
MaxMessages == 1
MaxIntervalAdds == 3
MaxIntervalMinutes == 11
MaxPairAdds == 1
MaxNotes == 1

(***************************************************************************)
(* Program constants.                                                      *)
(***************************************************************************)
MinutesPerHour == 60
CleanupIntervalMinutes == 10
DefaultMaxItems == 100
DefaultMaxAgeHours == 24
DefaultImportanceThreshold == 1
MinImportance == 0
MaxImportance == 10
SummaryMinImportance == 7
SummaryLimit == 20
SummaryFallbackLimit == 10
SummaryRecentMessages == 5
PrepareLimit == 20
DefaultMaxLength == 1000
EllipsisLength == 3
DefaultRecentHours == 1

(***************************************************************************)
(* Python values.                                                          *)
(***************************************************************************)
None == <<>>
Some(v) == <<v>>

Min(a, b) == IF a < b THEN a ELSE b
Max(a, b) == IF a > b THEN a ELSE b

\* s[:n]
PySliceTo(s, n) ==
    IF n >= 0 THEN SubSeq(s, 1, Min(n, Len(s)))
              ELSE SubSeq(s, 1, Max(Len(s) + n, 0))

\* s[n:]
PySliceFrom(s, n) ==
    IF n >= 0 THEN SubSeq(s, Min(n, Len(s)) + 1, Len(s))
              ELSE SubSeq(s, Max(Len(s) + n, 0) + 1, Len(s))

\* sep.join(parts)
join(sep, parts) ==
    LET joined[i \in 0..Len(parts)] ==
            IF i = 0 THEN ""
            ELSE IF i = 1 THEN parts[1]
            ELSE joined[i - 1] \o sep \o parts[i]
    IN joined[Len(parts)]

\* the ASCII letters
ascii_lowercase == "abcdefghijklmnopqrstuvwxyz"
ascii_uppercase == "ABCDEFGHIJKLMNOPQRSTUVWXYZ"

\* alphabet.find(c) + 1
find(alphabet, c) ==
    IF \E i \in 1..Len(alphabet) : SubSeq(alphabet, i, i) = c
    THEN CHOOSE i \in 1..Len(alphabet) : SubSeq(alphabet, i, i) = c
    ELSE 0

\* c.upper() and c.lower() of one character
upper(c) ==
    IF find(ascii_lowercase, c) > 0
    THEN SubSeq(ascii_uppercase, find(ascii_lowercase, c), find(ascii_lowercase, c))
    ELSE c

lower(c) ==
    IF find(ascii_uppercase, c) > 0
    THEN SubSeq(ascii_lowercase, find(ascii_uppercase, c), find(ascii_uppercase, c))
    ELSE c

\* the character is a letter
cased(c) == find(ascii_lowercase, c) > 0 \/ find(ascii_uppercase, c) > 0

\* str.title(): a letter that follows a letter is lowered, any other letter
\* is raised
title(s) ==
    LET titled[i \in 0..Len(s)] ==
            IF i = 0 THEN ""
            ELSE titled[i - 1]
                     \o (IF i > 1 /\ cased(SubSeq(s, i - 1, i - 1))
                         THEN lower(SubSeq(s, i, i))
                         ELSE upper(SubSeq(s, i, i)))
    IN titled[Len(s)]

\* timedelta(hours=h)
timedelta_hours(h) == h * MinutesPerHour

\* timedelta(minutes=m)
timedelta_minutes(m) == m

\* datetime.isoformat(): the textual form, hours and minutes fields
isoformat(t) == [hh |-> t \div MinutesPerHour, mm |-> t % MinutesPerHour]

\* datetime.fromisoformat()
fromisoformat(s) == s.hh * MinutesPerHour + s.mm

EmptyDict == {}

(***************************************************************************)
(* ContextItem                                                             *)
(***************************************************************************)
ContextItem(id, type, content, timestamp, importance, expires_at, metadata) ==
    [id |-> id, type |-> type, content |-> content, timestamp |-> timestamp,
     importance |-> importance, expires_at |-> expires_at, metadata |-> metadata]

\* to_dict that leaves expires_at out of the dictionary
to_dict_without_expiry(item) ==
    [id |-> item.id, type |-> item.type, content |-> item.content,
     timestamp |-> isoformat(item.timestamp),
     importance |-> item.importance,
     expires_at |-> None,
     metadata |-> item.metadata]

to_dict(item) ==
    [id |-> item.id, type |-> item.type, content |-> item.content,
     timestamp |-> isoformat(item.timestamp),
     importance |-> item.importance,
     expires_at |-> IF item.expires_at # None
                    THEN Some(isoformat(item.expires_at[1]))
                    ELSE None,
     metadata |-> item.metadata]

from_dict(data) ==
    ContextItem(data.id, data.type, data.content,
                fromisoformat(data.timestamp),
                data.importance,
                IF data.expires_at # None
                THEN Some(fromisoformat(data.expires_at[1]))
                ELSE None,
                data.metadata)

is_expired(item, t) == item.expires_at # None /\ t > item.expires_at[1]

(***************************************************************************)
(* ContextWindow                                                           *)
(***************************************************************************)
ContextWindow(max_items, max_age_hours, importance_threshold) ==
    [max_items |-> max_items, max_age_hours |-> max_age_hours,
     importance_threshold |-> importance_threshold]

DefaultContextWindow ==
    ContextWindow(DefaultMaxItems, DefaultMaxAgeHours, DefaultImportanceThreshold)

\* should_retain that drops an item as soon as its age reaches max_age_hours
should_retain_age_reached(cw, item, t) ==
    IF item.expires_at # None /\ t > item.expires_at[1] THEN FALSE
    ELSE IF item.importance < cw.importance_threshold THEN FALSE
    ELSE IF t - item.timestamp >= timedelta_hours(cw.max_age_hours) THEN FALSE
    ELSE TRUE

should_retain(cw, item, t) ==
    IF is_expired(item, t) THEN FALSE
    ELSE IF item.importance < cw.importance_threshold THEN FALSE
    ELSE IF t - item.timestamp > timedelta_hours(cw.max_age_hours) THEN FALSE
    ELSE TRUE

(***************************************************************************)
(* list.sort(key=lambda x: (x.importance, x.timestamp), reverse=True)      *)
(* The sort is stable: items with equal keys keep their relative order.    *)
(***************************************************************************)
\* the sort key without the timestamp
KeyLess_importance_only(a, b) == a.importance < b.importance

KeyLess(a, b) ==
    \/ a.importance < b.importance
    \/ a.importance = b.importance /\ a.timestamp < b.timestamp

InsertDesc(s, x) ==
    LET smaller == {i \in 1..Len(s) : KeyLess(s[i], x)}
        p == IF smaller = {} THEN Len(s) + 1
             ELSE CHOOSE i \in smaller : \A j \in smaller : i <= j
    IN SubSeq(s, 1, p - 1) \o <<x>> \o SubSeq(s, p, Len(s))

RECURSIVE SortByImportanceRecency(_)
SortByImportanceRecency(s) ==
    IF s = <<>> THEN <<>>
    ELSE InsertDesc(SortByImportanceRecency(SubSeq(s, 1, Len(s) - 1)), s[Len(s)])

(***************************************************************************)
(* ContextManager                                                          *)
(***************************************************************************)
NewContextManager(session_id, context_window, t) ==
    [session_id |-> session_id,
     context_window |-> IF context_window # None THEN context_window[1]
                        ELSE DefaultContextWindow,
     items |-> <<>>,
     summary |-> None,
     last_cleanup |-> t]

\* the list comprehension of _cleanup: the items that pass should_retain
retained(m, t) ==
    SelectSeq(m.items, LAMBDA item : should_retain(m.context_window, item, t))

\* _cleanup without the max_items limit
cleanup_without_cap(m, t) == [m EXCEPT !.items = retained(m, t)]

\* _cleanup that slices the surplus off the wrong end: items[max_items:]
cleanup_drop_front(m, t) ==
    LET kept == retained(m, t)
        limited == IF Len(kept) > m.context_window.max_items
                   THEN SubSeq(SortByImportanceRecency(kept),
                               m.context_window.max_items + 1, Len(kept))
                   ELSE kept
    IN [m EXCEPT !.items = limited]

cleanup(m, t) ==
    LET kept == retained(m, t)
        limited == IF Len(kept) > m.context_window.max_items
                   THEN PySliceTo(SortByImportanceRecency(kept),
                                  m.context_window.max_items)
                   ELSE kept
    IN [m EXCEPT !.items = limited]
\* _maybe_cleanup that waits until more than the interval has passed
CleanupDue_strict(m, t) == t - m.last_cleanup > timedelta_minutes(CleanupIntervalMinutes)

CleanupDue(m, t) == ~(t - m.last_cleanup < timedelta_minutes(CleanupIntervalMinutes))
\* _maybe_cleanup without the interval test: a pass on every call
maybe_cleanup_always(m, t) == [cleanup(m, t) EXCEPT !.last_cleanup = t]

maybe_cleanup(m, t) ==
    IF ~CleanupDue(m, t) THEN m
    ELSE [cleanup(m, t) EXCEPT !.last_cleanup = t]

\* the ContextItem that add_context builds
new_item(content, context_type, importance, expires_in_hours, metadata, item_id, t) ==
    LET expires_at == IF expires_in_hours # None /\ expires_in_hours[1] # 0
                      THEN Some(t + timedelta_hours(expires_in_hours[1]))
                      ELSE None
    IN ContextItem(item_id, context_type, content, t, importance, expires_at,
                   IF metadata # None /\ metadata[1] # EmptyDict
                   THEN metadata[1] ELSE EmptyDict)

\* self._context_items.append(item)
appended(m, item) == [m EXCEPT !.items = Append(@, item)]

add_context(m, content, context_type, importance, expires_in_hours, metadata, item_id, t) ==
    maybe_cleanup(
        appended(m, new_item(content, context_type, importance, expires_in_hours,
                             metadata, item_id, t)),
        t)

\* get_context without the is_expired test
get_context_keep_expired(m, context_type, min_importance, limit, t) ==
    LET typed == context_type # None /\ context_type[1] # ""
        items == SelectSeq(m.items, LAMBDA item :
                     /\ ~(typed /\ item.type # context_type[1])
                     /\ ~(item.importance < min_importance))
        sorted == SortByImportanceRecency(items)
    IN IF limit # None /\ limit[1] # 0 THEN PySliceTo(sorted, limit[1]) ELSE sorted

get_context(m, context_type, min_importance, limit, t) ==
    LET typed == context_type # None /\ context_type[1] # ""
        items == SelectSeq(m.items, LAMBDA item :
                     /\ ~is_expired(item, t)
                     /\ ~(typed /\ item.type # context_type[1])
                     /\ ~(item.importance < min_importance))
        sorted == SortByImportanceRecency(items)
    IN IF limit # None /\ limit[1] # 0 THEN PySliceTo(sorted, limit[1]) ELSE sorted
\* get_recent_context that orders its result as get_context does, by
\* importance first
get_recent_context_by_importance(m, hours, context_type, t) ==
    LET cutoff == t - timedelta_hours(hours)
        items == SelectSeq(m.items, LAMBDA item :
                     /\ item.timestamp >= cutoff
                     /\ (context_type = None \/ item.type = context_type[1]))
    IN SortByImportanceRecency(items)

\* get_recent_context: sorted() is stable, so items of one timestamp stay in
\* storage order
InsertByTimestampDesc(s, x) ==
    LET before == {i \in 1..Len(s) : s[i].timestamp >= x.timestamp}
        k == Cardinality(before)
    IN SubSeq(s, 1, k) \o <<x>> \o SubSeq(s, k + 1, Len(s))

SortByRecency(s) ==
    LET sorted[i \in 0..Len(s)] ==
            IF i = 0 THEN <<>> ELSE InsertByTimestampDesc(sorted[i - 1], s[i])
    IN sorted[Len(s)]

get_recent_context(m, hours, context_type, t) ==
    LET cutoff == t - timedelta_hours(hours)
        items == SelectSeq(m.items, LAMBDA item :
                     /\ item.timestamp >= cutoff
                     /\ (context_type = None \/ item.type = context_type[1]))
    IN SortByRecency(items)

\* item.metadata.get(key, default); a metadata dictionary is kept as its set
\* of keys, the text of a stored value is written "<key>"
metadata_get(metadata, key, default) ==
    IF key \in metadata THEN "<" \o key \o ">" ELSE default

\* the keys of by_type, in order of first appearance
by_type_keys(items) ==
    LET keys[i \in 0..Len(items)] ==
            IF i = 0 THEN <<>>
            ELSE IF \E j \in 1..Len(keys[i - 1]) : keys[i - 1][j] = items[i].type
                 THEN keys[i - 1]
                 ELSE Append(keys[i - 1], items[i].type)
    IN keys[Len(items)]

\* by_type[context_type]
by_type(items, context_type) == SelectSeq(items, LAMBDA item : item.type = context_type)

\* the sentence that get_context_summary writes for the items of one type
summary_part(context_type, items) ==
    LET names == [i \in 1..Len(items) |-> metadata_get(items[i].metadata, "name", "Unknown")]
        recent == PySliceFrom(items, -SummaryRecentMessages)
    IN CASE context_type = "message" ->
                "Recent conversation: "
                    \o join(" | ", [i \in 1..Len(recent) |-> recent[i].content])
         [] context_type = "integration" ->
                "Working on integrations: " \o join(", ", names)
         [] context_type = "entity" ->
                "Referenced entities: " \o join(", ", names)
         [] OTHER -> title(context_type) \o ": " \o ToString(Len(items)) \o " items"

\* the truncation at the end of get_context_summary
truncated(summary, max_length) ==
    IF Len(summary) > max_length
    THEN PySliceTo(summary, max_length - EllipsisLength) \o "..."
    ELSE summary

get_context_summary(m, max_length, t) ==
    IF m.items = <<>> THEN "No context available."
    ELSE LET high == get_context(m, None, SummaryMinImportance, Some(SummaryLimit), t)
             important_items ==
                 IF high = <<>>
                 THEN get_context(m, None, MinImportance, Some(SummaryFallbackLimit), t)
                 ELSE high
             keys == by_type_keys(important_items)
             summary_parts ==
                 [i \in 1..Len(keys) |->
                      summary_part(keys[i], by_type(important_items, keys[i]))]
         IN truncated(join(". ", summary_parts), max_length)

HasItem(m, item_id) == \E i \in 1..Len(m.items) : m.items[i].id = item_id

\* update_context_importance that takes the item out and appends the updated
\* copy at the end of the storage
update_context_importance_reinsert(m, item_id, importance) ==
    IF HasItem(m, item_id)
    THEN LET i == CHOOSE k \in 1..Len(m.items) : m.items[k].id = item_id
         IN [m EXCEPT !.items = SubSeq(@, 1, i - 1) \o SubSeq(@, i + 1, Len(@))
                                    \o <<[@[i] EXCEPT !.importance = importance]>>]
    ELSE m

update_context_importance(m, item_id, importance) ==
    IF HasItem(m, item_id)
    THEN LET i == CHOOSE k \in 1..Len(m.items) :
                      /\ m.items[k].id = item_id
                      /\ \A j \in 1..(k - 1) : m.items[j].id # item_id
         IN [m EXCEPT !.items[i].importance = importance]
    ELSE m

remove_context(m, item_id) ==
    IF HasItem(m, item_id)
    THEN LET i == CHOOSE k \in 1..Len(m.items) :
                      /\ m.items[k].id = item_id
                      /\ \A j \in 1..(k - 1) : m.items[j].id # item_id
         IN [m EXCEPT !.items = SubSeq(@, 1, i - 1) \o SubSeq(@, i + 1, Len(@))]
    ELSE m

clear_context(m, context_type) ==
    IF context_type = None
    THEN [m EXCEPT !.items = <<>>, !.summary = None]
    ELSE [m EXCEPT !.items = SelectSeq(@, LAMBDA item : item.type # context_type[1])]

\* [item.to_dict() for item in items]
to_dicts(items) == [i \in 1..Len(items) |-> to_dict(items[i])]

\* [ContextItem.from_dict(item_data) for item_data in dicts]
from_dicts(dicts) == [i \in 1..Len(dicts) |-> from_dict(dicts[i])]

\* export_context that dumps only the first max_items items
export_context_capped(m) ==
    [session_id |-> m.session_id,
     context_window |-> m.context_window,
     context_items |-> to_dicts(PySliceTo(m.items, m.context_window.max_items)),
     summary |-> m.summary,
     last_cleanup |-> isoformat(m.last_cleanup)]

export_context(m) ==
    [session_id |-> m.session_id,
     context_window |-> m.context_window,
     context_items |-> to_dicts(m.items),
     summary |-> m.summary,
     last_cleanup |-> isoformat(m.last_cleanup)]

\* import_context up to the cleanup call: the fields taken from the snapshot
loaded(m, data) ==
    [session_id |-> data.session_id,
     context_window |-> IF "context_window" \in DOMAIN data
                        THEN data.context_window ELSE m.context_window,
     items |-> IF "context_items" \in DOMAIN data
               THEN from_dicts(data.context_items) ELSE <<>>,
     summary |-> IF "summary" \in DOMAIN data THEN data.summary ELSE None,
     last_cleanup |-> IF "last_cleanup" \in DOMAIN data
                      THEN fromisoformat(data.last_cleanup)
                      ELSE m.last_cleanup]

\* import_context without the final cleanup pass
import_context_no_cleanup(m, data, t) == loaded(m, data)

import_context(m, data, t) == cleanup(loaded(m, data), t)

(***************************************************************************)
(* The session layer: SessionManager and the ConversationService it wraps. *)
(* A Python dict is a function; a ContextManager object lives in the heap  *)
(* under an address, and a registry holds addresses, so that two           *)
(* registries can hold the same object or two different ones.  A world is  *)
(* the record of everything the two services can see.                      *)
(***************************************************************************)
\* d[k] = v
Put(d, k, v) == (k :> v) @@ d

\* d.pop(k, None)
Pop(d, k) == [x \in DOMAIN d \ {k} |-> d[x]]

\* the address of a newly constructed object
Alloc(h) == CHOOSE a \in 1..(Cardinality(DOMAIN h) + 1) :
                /\ a \notin DOMAIN h
                /\ \A b \in 1..(a - 1) : b \in DOMAIN h

\* the content dict of a message item, as the text str() gives for it; the
\* function_name and function_arguments of the messages here are None
message_content(role, content) ==
    "{'role': '" \o role \o "', 'content': '" \o content
        \o "', 'function_name': None, 'function_arguments': None}"

\* _load_conversation_context: one item per stored message
RECURSIVE load_conversation_context(_, _, _, _)
load_conversation_context(m, messages, item_id, t) ==
    IF messages = <<>> THEN m
    ELSE LET message == Head(messages)
             importance == IF message.role = "user" THEN 8 ELSE 6
         IN load_conversation_context(
                add_context(m, message_content(message.role, message.content),
                            "message", importance, None,
                            Some({"message_id", "created_at", "tokens"}), item_id, t),
                Tail(messages), item_id + 1, t)

\* ConversationService.get_conversation for a conversation that is in the
\* database (the caller handles NotFoundError)
get_conversation(w, sid, t) ==
    IF sid \in DOMAIN w.conversation_managers THEN w
    ELSE LET a == Alloc(w.heap)
             messages == w.db[sid].messages
             m == load_conversation_context(NewContextManager(sid, None, t),
                                            messages, w.nextId, t)
         IN [w EXCEPT !.heap = Put(@, a, m),
                      !.conversation_managers = Put(@, sid, a),
                      !.nextId = @ + Len(messages)]

\* ConversationService.create_conversation up to `await db.flush()`: the row
create_conversation_add(w, sid, t) ==
    [w EXCEPT !.db = Put(@, sid, [status |-> "active", updated_at |-> t,
                                  messages |-> <<>>])]

\* ConversationService.create_conversation from the flush to `await
\* db.commit()`: the manager, and the system prompt in it; a manager that
\* was registered for the id meanwhile is replaced and, nothing else
\* referring to it, gone
create_conversation_register(w, sid, system_prompt, t) ==
    LET a == Alloc(w.heap)
        seeded == system_prompt # None /\ system_prompt[1] # ""
        m0 == NewContextManager(sid, None, t)
        m == IF seeded
             THEN add_context(m0, system_prompt[1], "system_prompt", 10, None, None,
                              w.nextId, t)
             ELSE m0
    IN [w EXCEPT !.heap = Put(IF sid \in DOMAIN w.conversation_managers
                                  THEN Pop(@, w.conversation_managers[sid]) ELSE @,
                              a, m),
                 !.conversation_managers = Put(@, sid, a),
                 !.nextId = IF seeded THEN @ + 1 ELSE @]

\* SessionManager.create_session after create_conversation has returned: the
\* cache entry and a manager of its own, in the place of one that was
\* registered for the id
create_session_register(w, sid, t) ==
    LET a == Alloc(w.heap)
    IN [w EXCEPT !.active_sessions = @ \cup {sid},
                 !.heap = Put(IF sid \in DOMAIN w.context_managers
                                  THEN Pop(@, w.context_managers[sid]) ELSE @,
                              a, NewContextManager(sid, None, t)),
                 !.context_managers = Put(@, sid, a)]

\* what json.dump leaves in the file
json_dump(data) == [defect |-> "none", data |-> data]

\* _save_session_context
save_session_context(w, sid, outcome) ==
    LET data == export_context(w.heap[w.context_managers[sid]])
    IN CASE outcome = "ok" -> [w EXCEPT !.files = Put(@, sid, json_dump(data))]
         [] outcome = "open_fails" -> w
         [] outcome = "dump_fails" ->
                [w EXCEPT !.files = Put(@, sid, [defect |-> "unreadable", data |-> data])]

\* _load_session_context: import_context inside try/except, on a file that
\* may be damaged
load_session_context(w, sid, m, t) ==
    IF sid \notin DOMAIN w.files THEN m
    ELSE LET blob == w.files[sid]
             data == blob.data
         IN CASE blob.defect = "none" -> import_context(m, data, t)
              [] blob.defect = "unreadable" -> m
              [] blob.defect = "context_window" ->
                     [m EXCEPT !.session_id = data.session_id]
              [] blob.defect = "item" ->
                     [m EXCEPT !.session_id = data.session_id,
                               !.context_window = data.context_window]
              [] blob.defect = "last_cleanup" ->
                     [loaded(m, data) EXCEPT !.last_cleanup = m.last_cleanup]

Returned(w) == [w |-> w, raised |-> None]
Raised(w, e) == [w |-> w, raised |-> Some(e)]

\* get_session that builds the manager under an empty session id
get_session_load_unnamed(w, sid, t) ==
    IF sid \notin DOMAIN w.db THEN Raised(w, "NotFoundError")
    ELSE LET w1 == get_conversation(w, sid, t)
             w2 == [w1 EXCEPT !.active_sessions = @ \cup {sid}]
             a == Alloc(w2.heap)
             m == load_session_context(w2, sid, NewContextManager("", None, t), t)
         IN Returned(IF sid \notin DOMAIN w2.context_managers
                     THEN [w2 EXCEPT !.heap = Put(@, a, m),
                                     !.context_managers = Put(@, sid, a)]
                     ELSE w2)

\* get_session that builds, loads and registers a manager without looking
\* whether one is registered
get_session_load_unchecked(w, sid, t) ==
    IF sid \notin DOMAIN w.db THEN Raised(w, "NotFoundError")
    ELSE LET w1 == get_conversation(w, sid, t)
             w2 == [w1 EXCEPT !.active_sessions = @ \cup {sid}]
             a == Alloc(w2.heap)
             m == load_session_context(w2, sid, NewContextManager(sid, None, t), t)
         IN Returned([w2 EXCEPT !.heap = Put(@, a, m),
                                !.context_managers = Put(@, sid, a)])

\* SessionManager.get_session from the return of the database query on: the
\* cache entry, then the manager if none is registered
get_session_load(w, sid, t) ==
    IF sid \notin DOMAIN w.db THEN Raised(w, "NotFoundError")
    ELSE LET w1 == get_conversation(w, sid, t)
             w2 == [w1 EXCEPT !.active_sessions = @ \cup {sid}]
             a == Alloc(w2.heap)
             m == load_session_context(w2, sid, NewContextManager(sid, None, t), t)
         IN Returned(IF sid \notin DOMAIN w2.context_managers
                     THEN [w2 EXCEPT !.heap = Put(@, a, m),
                                     !.context_managers = Put(@, sid, a)]
                     ELSE w2)

\* ConversationService.update_conversation_status for a conversation that is
\* in the database; the row's updated_at moves when the row changes
update_conversation_status(w, sid, status, t) ==
    LET w1 == get_conversation(w, sid, t)
    IN IF w1.db[sid].status = status THEN w1
       ELSE [w1 EXCEPT !.db[sid].status = status, !.db[sid].updated_at = t]

\* SessionManager.update_session before its commit: session.updated_at
update_session_fields(w, sid, t) == [w EXCEPT !.db[sid].updated_at = t]

\* SessionManager.update_session after its commit: the cache entry is written
update_session_cache(w, sid) == [w EXCEPT !.active_sessions = @ \cup {sid}]

\* the "context" entry of what export_session returns
export_session(w, sid) ==
    IF sid \in DOMAIN w.context_managers
    THEN Some(export_context(w.heap[w.context_managers[sid]]))
    ELSE None

\* pop calls that are skipped when the session's file is not an intact snapshot
popped_when_saved(w, sid) ==
    IF sid \in DOMAIN w.files /\ w.files[sid].defect = "none"
    THEN [w EXCEPT !.active_sessions = @ \ {sid},
                   !.context_managers = Pop(@, sid),
                   !.heap = IF sid \in DOMAIN w.context_managers
                            THEN Pop(@, w.context_managers[sid]) ELSE @]
    ELSE w

\* the two pop calls that end close_session and archive_session
popped(w, sid) ==
    [w EXCEPT !.active_sessions = @ \ {sid},
              !.context_managers = Pop(@, sid),
              !.heap = IF sid \in DOMAIN w.context_managers
                       THEN Pop(@, w.context_managers[sid]) ELSE @]

\* close_session and archive_session from the return of the status update
\* on: the save, then the two pop calls
close_session_finish(w, sid, save_context, outcome) ==
    popped(IF save_context /\ sid \in DOMAIN w.context_managers
           THEN save_session_context(w, sid, outcome) ELSE w,
           sid)

\* the query of cleanup_expired_sessions: the active rows last touched before
\* the cutoff
expired_sessions(w, cutoff) ==
    {sid \in DOMAIN w.db :
        /\ w.db[sid].updated_at < cutoff
        /\ w.db[sid].status = "active"}

\* ConversationService.add_conversation_context
add_conversation_context(w, sid, content, context_type, importance, metadata, t) ==
    LET a == IF sid \in DOMAIN w.conversation_managers
             THEN w.conversation_managers[sid] ELSE Alloc(w.heap)
        w1 == IF sid \in DOMAIN w.conversation_managers THEN w
              ELSE [w EXCEPT !.heap = Put(@, a, NewContextManager(sid, None, t)),
                             !.conversation_managers = Put(@, sid, a)]
    IN [w1 EXCEPT !.heap[a] = add_context(@, content, context_type, importance,
                                          None, metadata, w1.nextId, t),
                  !.nextId = @ + 1]

\* ConversationService.cleanup_conversation_context
cleanup_conversation_context(w, sid, t) ==
    IF sid \in DOMAIN w.conversation_managers
    THEN [w EXCEPT !.heap[w.conversation_managers[sid]] = cleanup(@, t)]
    ELSE w

\* ConversationService.send_message
send_message(w, sid, role, content, t) ==
    IF sid \notin DOMAIN w.db THEN Raised(w, "NotFoundError")
    ELSE LET w1 == get_conversation(w, sid, t)
             a == w1.conversation_managers[sid]
             importance == IF role = "user" THEN 9 ELSE 7
         IN Returned(
             [w1 EXCEPT !.db[sid].messages = Append(@, [role |-> role, content |-> content]),
                        !.db[sid].updated_at = t,
                        !.heap[a] = add_context(@, message_content(role, content),
                                                "message", importance, None,
                                                Some({"message_id", "created_at"}),
                                                w1.nextId, t),
                        !.nextId = @ + 1])

\* the content dict of the reply item of _generate_single_response, as the
\* text str() gives for it
reply_content(role, content) ==
    "{'role': '" \o role \o "', 'content': '" \o content \o "'}"

\* the content of the item is a dict
is_dict(content) == Len(content) > 0 /\ SubSeq(content, 1, 1) = "{"

\* _prepare_ai_messages raises TypeError: message_data["content"] on a
\* "message" item whose content is no dict
prepare_ai_messages_raises(m, t) ==
    LET context_messages == get_context(m, Some("message"), MinImportance,
                                        Some(PrepareLimit), t)
    IN \E i \in 1..Len(context_messages) : ~is_dict(context_messages[i].content)

\* _generate_single_response: the context item of a tool result
generate_single_response_tool(w, sid, tool_result, t) ==
    [w EXCEPT !.heap[w.conversation_managers[sid]] =
                  add_context(@, tool_result, "tool_result", 8, None,
                              Some({"function_name", "arguments"}), w.nextId, t),
              !.nextId = @ + 1]

\* _generate_single_response: the reply message and its context item, up to
\* the commit
generate_single_response_message(w, sid, content, t) ==
    [w EXCEPT !.db[sid].messages = Append(@, [role |-> "assistant", content |-> content]),
              !.db[sid].updated_at = t,
              !.heap[w.conversation_managers[sid]] =
                  add_context(@, reply_content("assistant", content), "message", 7,
                              None, Some({"message_id", "created_at", "tokens"}),
                              w.nextId, t),
              !.nextId = @ + 1]

\* ConversationService.get_conversation_context_summary
get_conversation_context_summary(w, sid, t) ==
    IF sid \notin DOMAIN w.conversation_managers THEN "No context available."
    ELSE get_context_summary(w.heap[w.conversation_managers[sid]], DefaultMaxLength, t)

(***************************************************************************)
(* Inputs of the operations.                                               *)
(***************************************************************************)
StartTime == timedelta_hours(1)
Steps == {timedelta_hours(1), timedelta_hours(1) + timedelta_minutes(10)}

SessionIds == {"s1"}
Kinds == {"message", "entity"}
Contents == {"hello"}
Importances == {5, 15}
Ttls == {None, Some(-1), Some(1)}
Metadatas == {None}
Policies == {ContextWindow(1, 1, 1), ContextWindow(1, 24, 9)}
WindowArgs == {None} \cup {Some(p) : p \in Policies}
KindFilters == {None, Some("message")}
MinImportances == {0, 9}
Limits == {None, Some(0), Some(1)}
RecentHours == {0, 1}
MaxLengths == {0, 10, DefaultMaxLength}

\* Snapshots handed to import_context: exports of managers that were built at
\* StartTime by at most two add_context calls, the first of an item of
\* importance 0.5 with a one-hour ttl, the second of an item of importance
\* 1.5 without ttl.
SnapshotIds == <<MaxAdds + 1, MaxAdds + 2>>

Added(managers, importance, ttl, item_id) ==
    {add_context(m, "hello", "message", importance, ttl, None, item_id, StartTime) :
        m \in managers}

SnapshotInputs ==
    LET m0 == {NewContextManager(sid, Some(p), StartTime) :
                   sid \in SessionIds, p \in Policies}
        m1 == Added(m0, 5, Some(1), SnapshotIds[1])
        m2 == Added(m1, 15, None, SnapshotIds[2])
    IN {export_context(m) : m \in m0 \cup m1 \cup m2}

ItemIds == 1..(MaxAdds + 2)

(***************************************************************************)
(* The state machine of one ContextManager.                                *)
(***************************************************************************)
\* SessionManager() and ConversationService() over an empty database and an
\* empty persistence directory
NoSessions ==
    /\ db = <<>>
    /\ files = <<>>
    /\ heap = <<>>
    /\ active_sessions = {}
    /\ context_managers = <<>>
    /\ conversation_managers = <<>>
    /\ calls = EmptyBag

Init ==
    /\ now = StartTime
    /\ \E sid \in SessionIds, cw \in WindowArgs :
           mgr = NewContextManager(sid, cw, StartTime)
    /\ nextId = 1
    /\ ret = [op |-> "init"]
    /\ NoSessions

\* time passes between two calls
Tick ==
    \E d \in Steps :
        /\ now + d <= MaxTime
        /\ now' = now + d
        /\ ret' = [op |-> "tick"]
        /\ UNCHANGED <<mgr, nextId, session_vars>>

\* add_context(content, context_type, importance, expires_in_hours, metadata)
AddFrom(contents, kinds, importances, ttls, metadatas) ==
    \E content \in contents, kind \in kinds, importance \in importances,
       ttl \in ttls, metadata \in metadatas :
        LET item == new_item(content, kind, importance, ttl, metadata, nextId, now)
        IN /\ mgr' = add_context(mgr, content, kind, importance, ttl, metadata,
                                 nextId, now)
           /\ nextId' = nextId + 1
           /\ ret' = [op |-> "add", val |-> nextId, item |-> item,
                      cleaned |-> CleanupDue(mgr, now),
                      removed |-> Len(mgr.items) + 1 - Len(mgr'.items),
                      cut |-> Len(retained(appended(mgr, item), now)) - Len(mgr'.items)]
           /\ UNCHANGED <<now, session_vars>>

Add ==
    /\ nextId <= MaxAdds
    /\ Len(mgr.items) < MaxStored
    /\ AddFrom(Contents, {"message"}, Importances, Ttls, Metadatas)

\* get_context(context_type, min_importance, limit)
GetFrom(kinds, min_importances, limits) ==
    \E kind \in kinds, min_importance \in min_importances, limit \in limits :
        /\ ret' = [op |-> "get", context_type |-> kind,
                   min_importance |-> min_importance, limit |-> limit,
                   val |-> get_context(mgr, kind, min_importance, limit, now)]
        /\ UNCHANGED <<now, mgr, nextId, session_vars>>

\* get_context()
Get == GetFrom({None}, {0}, {None})

\* get_recent_context(hours, context_type)
GetRecentFrom(hours_set, kinds) ==
    \E hours \in hours_set, kind \in kinds :
        /\ ret' = [op |-> "recent", hours |-> hours, context_type |-> kind,
                   val |-> get_recent_context(mgr, hours, kind, now)]
        /\ UNCHANGED <<now, mgr, nextId, session_vars>>

\* get_recent_context()
GetRecent == GetRecentFrom({DefaultRecentHours}, {None})

\* get_context_summary(max_length)
GetSummaryFrom(max_lengths) ==
    \E max_length \in max_lengths :
        /\ ret' = [op |-> "summary", max_length |-> max_length,
                   val |-> get_context_summary(mgr, max_length, now)]
        /\ UNCHANGED <<now, mgr, nextId, session_vars>>

\* get_context_summary()
GetSummary == GetSummaryFrom({DefaultMaxLength})

\* update_context_importance(item_id, importance)
UpdateImportance ==
    \E item_id \in ItemIds, importance \in Importances :
        /\ mgr' = update_context_importance(mgr, item_id, importance)
        /\ ret' = [op |-> "update", item_id |-> item_id, importance |-> importance,
                   val |-> HasItem(mgr, item_id)]
        /\ UNCHANGED <<now, nextId, session_vars>>

\* remove_context(item_id)
Remove ==
    \E item_id \in ItemIds :
        /\ mgr' = remove_context(mgr, item_id)
        /\ ret' = [op |-> "remove", item_id |-> item_id, val |-> HasItem(mgr, item_id)]
        /\ UNCHANGED <<now, nextId, session_vars>>

\* clear_context()
Clear ==
    /\ mgr' = clear_context(mgr, None)
    /\ ret' = [op |-> "clear", context_type |-> None,
               val |-> Len(mgr.items) - Len(mgr'.items)]
    /\ UNCHANGED <<now, nextId, session_vars>>

\* a cleanup pass has just run: the last operation was _cleanup, import_context,
\* or an add_context whose _maybe_cleanup was due
CleanupRan ==
    \/ ret.op \in {"cleanup", "import", "export_import"}
    \/ ret.op = "add" /\ ret.cleaned

\* ConversationService.cleanup_conversation_context: context_manager._cleanup()
Cleanup ==
    /\ mgr' = cleanup(mgr, now)
    /\ ret' = [op |-> "cleanup", again |-> CleanupRan,
               removed |-> Len(mgr.items) - Len(mgr'.items),
               cut |-> Len(retained(mgr, now)) - Len(mgr'.items)]
    /\ UNCHANGED <<now, nextId, session_vars>>

\* export_context()
Export ==
    /\ ret' = [op |-> "export", val |-> export_context(mgr)]
    /\ UNCHANGED <<now, mgr, nextId, session_vars>>

\* import_context(data), data a snapshot taken at StartTime
Import ==
    \E data \in SnapshotInputs :
        /\ mgr' = import_context(mgr, data, now)
        /\ ret' = [op |-> "import", data |-> data,
                   held |-> Len(mgr.items),
                   replaced |-> mgr.context_window # data.context_window,
                   removed |-> Len(data.context_items) - Len(mgr'.items),
                   cut |-> Len(retained(loaded(mgr, data), now)) - Len(mgr'.items)]
        /\ UNCHANGED <<now, nextId, session_vars>>

\* ContextManager(session_id).import_context(m.export_context()), at one instant
export_import(m, t) ==
    import_context(NewContextManager(m.session_id, None, t), export_context(m), t)

ExportImport ==
    /\ mgr' = export_import(mgr, now)
    /\ ret' = [op |-> "export_import",
               removed |-> Len(mgr.items) - Len(mgr'.items),
               cut |-> Len(retained(mgr, now)) - Len(mgr'.items)]
    /\ UNCHANGED <<now, nextId, session_vars>>

Next ==
    \/ Tick
    \/ Add
    \/ Get
    \/ GetRecent
    \/ GetSummary
    \/ UpdateImportance
    \/ Remove
    \/ Clear
    \/ Cleanup
    \/ Export
    \/ Import
    \/ ExportImport

Spec == Init /\ [][Next]_vars

(***************************************************************************)
(* The eviction machine: one manager with no importance floor that is      *)
(* filled by add_context calls a minute apart or less, then cleaned up.    *)
(***************************************************************************)
EvictImportances == {1, 5, 9}
EvictFloors == {0, 3}
EvictPolicies ==
    {ContextWindow(k, DefaultMaxAgeHours, floor) : k \in 1..MaxEvictCap, floor \in EvictFloors}

InitEvict ==
    /\ now = StartTime
    /\ \E sid \in SessionIds, p \in EvictPolicies :
           mgr = NewContextManager(sid, Some(p), StartTime)
    /\ nextId = 1
    /\ ret = [op |-> "init"]
    /\ NoSessions

TickMinute ==
    /\ now + timedelta_minutes(1) <= StartTime + timedelta_minutes(MaxEvictMinutes)
    /\ now' = now + timedelta_minutes(1)
    /\ ret' = [op |-> "tick"]
    /\ UNCHANGED <<mgr, nextId, session_vars>>

AddEvict ==
    /\ nextId <= MaxEvictAdds
    /\ AddFrom(Contents, {"message"}, EvictImportances, {None}, Metadatas)

NextEvict ==
    \/ TickMinute
    \/ AddEvict
    \/ Cleanup

SpecEvict == InitEvict /\ [][NextEvict]_vars

(***************************************************************************)
(* The interval machine: one manager that receives add_context calls just  *)
(* before, exactly at and just after the cleanup interval has passed since *)
(* its construction.                                                       *)
(***************************************************************************)
IntervalSteps ==
    {timedelta_minutes(CleanupIntervalMinutes - 1),
     timedelta_minutes(CleanupIntervalMinutes),
     timedelta_minutes(CleanupIntervalMinutes + 1)}

IntervalTtls == {None, Some(-1)}

InitInterval ==
    /\ now = StartTime
    /\ \E sid \in SessionIds, p \in EvictPolicies :
           mgr = NewContextManager(sid, Some(p), StartTime)
    /\ nextId = 1
    /\ ret = [op |-> "init"]
    /\ NoSessions

TickInterval ==
    \E d \in IntervalSteps :
        /\ now + d <= StartTime + timedelta_minutes(MaxIntervalMinutes)
        /\ now' = now + d
        /\ ret' = [op |-> "tick"]
        /\ UNCHANGED <<mgr, nextId, session_vars>>

AddInterval ==
    /\ nextId <= MaxIntervalAdds
    /\ AddFrom(Contents, {"message"}, EvictImportances, IntervalTtls, Metadatas)

NextInterval ==
    \/ TickInterval
    \/ AddInterval

SpecInterval == InitInterval /\ [][NextInterval]_vars

(***************************************************************************)
(* The query machine: one manager under the default policy that is filled  *)
(* by add_context calls a minute apart or less, with items of both kinds,  *)
(* some of them already expired, and queried with every combination of     *)
(* get_context arguments.                                                  *)
(***************************************************************************)
QueryImportances == {5, 9}
QueryTtls == {None, Some(-1)}

InitQuery ==
    /\ now = StartTime
    /\ \E sid \in SessionIds : mgr = NewContextManager(sid, None, StartTime)
    /\ nextId = 1
    /\ ret = [op |-> "init"]
    /\ NoSessions

AddQuery ==
    /\ nextId <= MaxQueryAdds
    /\ AddFrom(Contents, Kinds, QueryImportances, QueryTtls, Metadatas)

\* get_context(context_type, min_importance, limit)
GetQuery == GetFrom(KindFilters, MinImportances, Limits)

\* get_recent_context(hours, context_type)
GetRecentQuery == GetRecentFrom(RecentHours, KindFilters)

\* get_context_summary(max_length)
GetSummaryQuery == GetSummaryFrom(MaxLengths)

NextQuery ==
    \/ TickMinute
    \/ AddQuery
    \/ GetQuery
    \/ GetRecentQuery
    \/ GetSummaryQuery

SpecQuery == InitQuery /\ [][NextQuery]_vars

(***************************************************************************)
(* The session machines.  A method is a sequence of steps, each running    *)
(* from one await (db.flush, db.execute, db.commit, the model, a tool) to  *)
(* the next; the calls of the tasks of the event loop interleave at the    *)
(* awaits.  The steps are shared by four machines, each with the calls of  *)
(* one part of the interface, the machine with all of them at once being   *)
(* too large to explore:                                                   *)
(*   SpecSession       the SessionManager of a new deployment, one session; *)
(*   SpecAsync         the SessionManager restarted over what an earlier   *)
(*                     process left behind;                                *)
(*   SpecConversation  the ConversationService called directly;            *)
(*   SpecPair          two sessions side by side.                          *)
(***************************************************************************)
SessionKeys == {"s1", "s2"}
SystemPrompts == {None, Some("hello")}
Roles == {"user"}
IdleStep == timedelta_hours(1) + timedelta_minutes(10)
WriteOutcomes == {"ok", "open_fails", "dump_fails"}
IdleHours == {1}

\* the files an earlier process may have left for session "s1": the export
\* of a two-item manager under the policy (1 item, 24 hours, 0.9), intact or
\* damaged in one of three places
PriorFiles ==
    LET one == CHOOSE d \in SnapshotInputs :
                   /\ Len(d.context_items) = 2
                   /\ d.context_window = ContextWindow(1, 24, 9)
    IN {[defect |-> x, data |-> one] :
           x \in {"none", "context_window", "item", "last_cleanup"}}

\* what an earlier process may have left: nothing, or conversation "s1" with
\* one message, with or without a file
PriorWorlds ==
    LET row == [status |-> "active", updated_at |-> StartTime,
                messages |-> <<[role |-> "user", content |-> "hello"]>>]
    IN {[db |-> <<>>, files |-> <<>>]}
           \cup {[db |-> Put(<<>>, "s1", row), files |-> <<>>]}
           \cup {[db |-> Put(<<>>, "s1", row), files |-> Put(<<>>, "s1", f)] :
                    f \in PriorFiles}

\* the tasks of the event loop; a task awaits one call at a time, and the
\* tasks being interchangeable the state keeps the bag of their frames
Tasks == {"t1", "t2"}

\* the frame of a call: the method, where it is suspended, and the arguments
\* and locals it still needs; in a sweep, cutoff is the time it computed at
\* the call, session_id is the session its close_session is on and
\* expired_sessions the sessions still to come
Frame(op, pc, sid) ==
    [op |-> op, pc |-> pc, session_id |-> sid, save_context |-> FALSE,
     system_prompt |-> None, role |-> "", content |-> "", status |-> "",
     max_age_hours |-> 0, cutoff |-> 0,
     expired_sessions |-> <<>>, cleanup_count |-> 0]

World ==
    [db |-> db, files |-> files, heap |-> heap, active_sessions |-> active_sessions,
     context_managers |-> context_managers,
     conversation_managers |-> conversation_managers, nextId |-> nextId]

\* the state a call leaves behind
Settle(w) ==
    /\ db' = w.db
    /\ files' = w.files
    /\ heap' = w.heap
    /\ active_sessions' = w.active_sessions
    /\ context_managers' = w.context_managers
    /\ conversation_managers' = w.conversation_managers
    /\ nextId' = w.nextId

InitSession ==
    /\ now = StartTime
    /\ mgr = NewContextManager("s1", None, StartTime)
    /\ nextId = 1
    /\ ret = [op |-> "init"]
    /\ NoSessions

\* the id the database gives the conversation row: this machine follows one
\* session, "s1"; "s2" stays an id that nothing records
NewKeys == SessionIds \ DOMAIN db

\* the calls of method op that are suspended at pc
At(op, pc) == {c \in BagToSet(calls) : c.op = op /\ c.pc = pc}

\* the ids whose row a create call in flight has added: the id is the
\* caller's only when the call has returned
Creating ==
    {c.session_id : c \in {x \in BagToSet(calls) : x.op \in {"create_session",
                                                             "create_conversation"}}}

\* the ids a caller can pass: the recorded ones, and an id nothing records
Recorded == DOMAIN db \ Creating
Nameable == Recorded \cup ((SessionKeys \ SessionIds) \ DOMAIN db)

\* what the step of a call that has not returned leaves in ret
Suspended == [op |-> "await"]

\* a task that awaits nothing calls a method, which runs to its first await
Start(call, w) ==
    /\ BagCardinality(calls) < Cardinality(Tasks)
    /\ Settle(w)
    /\ calls' = calls (+) SetToBag({call})
    /\ ret' = Suspended
    /\ UNCHANGED <<now, mgr>>

\* a call goes on from the await it was suspended at to its next await
Proceed(c, call, w) ==
    /\ Settle(w)
    /\ calls' = (calls (-) SetToBag({c})) (+) SetToBag({call})
    /\ ret' = Suspended
    /\ UNCHANGED <<now, mgr>>

\* a call returns or raises
Finish(c, w, r) ==
    /\ Settle(w)
    /\ calls' = calls (-) SetToBag({c})
    /\ ret' = r
    /\ UNCHANGED <<now, mgr>>

\* a call that has no await: it starts and returns in one step
Atomic(w, r) ==
    /\ BagCardinality(calls) < Cardinality(Tasks)
    /\ Settle(w)
    /\ ret' = r
    /\ UNCHANGED <<now, mgr, calls>>

\* the orders in which a query can return a set of rows
Orders(rows) ==
    {order \in [1..Cardinality(rows) -> rows] :
        \A i, j \in 1..Cardinality(rows) : i # j => order[i] # order[j]}

\* an idle period goes by, whatever calls are suspended meanwhile
TickIdle ==
    /\ now + IdleStep <= MaxTime
    /\ now' = now + IdleStep
    /\ ret' = [op |-> "tick"]
    /\ UNCHANGED <<mgr, nextId, session_vars>>

\* create_session(db, system_prompt=...) up to the flush of
\* create_conversation, the database drawing the new id
CreateSession ==
    \E sid \in NewKeys, system_prompt \in SystemPrompts :
        Start([Frame("create_session", "flush", sid) EXCEPT
                   !.system_prompt = system_prompt],
              create_conversation_add(World, sid, now))

\* create_session from the flush to the commit of create_conversation
CreateSessionFlushed ==
    \E c \in At("create_session", "flush") :
        Proceed(c, [c EXCEPT !.pc = "commit"],
                create_conversation_register(World, c.session_id, c.system_prompt, now))

\* create_session after the commit
CreateSessionCommitted ==
    \E c \in At("create_session", "commit") :
        Finish(c, create_session_register(World, c.session_id, now),
               [op |-> "create_session", session_id |-> c.session_id,
                system_prompt |-> c.system_prompt, raised |-> None])

\* get_session(db, session_id): the cache check, and the query when the
\* session is not in the cache
GetSession ==
    \E sid \in Nameable :
        IF sid \in active_sessions
        THEN Atomic(World, [op |-> "get_session", session_id |-> sid,
                            resident |-> TRUE, raised |-> None])
        ELSE Start(Frame("get_session", "execute", sid), World)

\* get_session after the query
GetSessionLoaded ==
    \E c \in At("get_session", "execute") :
        LET r == get_session_load(World, c.session_id, now)
        IN Finish(c, r.w, [op |-> "get_session", session_id |-> c.session_id,
                           resident |-> FALSE,
                           registered |-> c.session_id \in DOMAIN context_managers,
                           raised |-> r.raised])

\* update_session(db, session_id, **updates): get_session, and when that
\* returns from the cache the field updates up to the commit
UpdateSession ==
    \E sid \in Recorded :
        IF sid \in active_sessions
        THEN Start(Frame("update_session", "commit", sid),
                   update_session_fields(World, sid, now))
        ELSE Start(Frame("update_session", "execute", sid), World)

\* update_session after the query of its get_session, up to the commit
UpdateSessionLoaded ==
    \E c \in At("update_session", "execute") :
        LET r == get_session_load(World, c.session_id, now)
        IN IF r.raised # None
           THEN Finish(c, r.w, [op |-> "update_session", session_id |-> c.session_id,
                                raised |-> r.raised])
           ELSE Proceed(c, [c EXCEPT !.pc = "commit"],
                        update_session_fields(r.w, c.session_id, now))

\* update_session after the commit
UpdateSessionCommitted ==
    \E c \in At("update_session", "commit") :
        Finish(c, update_session_cache(World, c.session_id),
               [op |-> "update_session", session_id |-> c.session_id,
                raised |-> None])

\* close_session and archive_session after the query of
\* update_conversation_status: NotFoundError, or the status up to the commit
StatusLoaded(c, status) ==
    IF c.session_id \in DOMAIN db
    THEN Proceed(c, [c EXCEPT !.pc = "commit"],
                 update_conversation_status(World, c.session_id, status, now))
    ELSE Finish(c, World, [op |-> c.op, session_id |-> c.session_id,
                           save_context |-> c.save_context, outcome |-> "none",
                           resident |-> c.session_id \in active_sessions,
                           raised |-> Some("NotFoundError")])

\* close_session and archive_session after the commit: the save, ending as
\* the file system decides, and the two pop calls
StatusCommitted(c, outcomes) ==
    \E outcome \in outcomes \cup {"none"} :
        /\ outcome = "none" <=> ~(/\ c.save_context
                                  /\ c.session_id \in DOMAIN context_managers)
        /\ Finish(c, close_session_finish(World, c.session_id, c.save_context, outcome),
                  [op |-> c.op, session_id |-> c.session_id,
                   save_context |-> c.save_context, outcome |-> outcome,
                   resident |-> c.session_id \in active_sessions, raised |-> None])

\* close_session(db, session_id, save_context) up to the query
CloseSession ==
    \E sid \in Nameable, save_context \in BOOLEAN :
        Start([Frame("close_session", "execute", sid) EXCEPT
                   !.save_context = save_context],
              World)

CloseSessionLoaded ==
    \E c \in At("close_session", "execute") : StatusLoaded(c, "completed")

CloseSessionCommitted ==
    \E c \in At("close_session", "commit") : StatusCommitted(c, WriteOutcomes)

\* archive_session(db, session_id) up to the query
ArchiveSession ==
    \E sid \in Nameable :
        Start([Frame("archive_session", "execute", sid) EXCEPT !.save_context = TRUE],
              World)

ArchiveSessionLoaded ==
    \E c \in At("archive_session", "execute") : StatusLoaded(c, "archived")

ArchiveSessionCommitted ==
    \E c \in At("archive_session", "commit") : StatusCommitted(c, WriteOutcomes)

\* cleanup_expired_sessions(db, max_age_hours) up to its query: the cutoff is
\* taken from the clock at the call
CleanupExpiredSessions ==
    \E max_age_hours \in IdleHours :
        Start([Frame("cleanup_expired_sessions", "query", "") EXCEPT
                   !.max_age_hours = max_age_hours,
                   !.cutoff = now - timedelta_hours(max_age_hours)],
              World)

\* the loop of cleanup_expired_sessions goes to its next session, and through
\* the close_session of that one up to the query, or the sweep returns
SweepOn(c, w, rest, outcome, cleanup_count) ==
    IF rest = <<>>
    THEN Finish(c, w, [op |-> "cleanup_expired_sessions",
                       max_age_hours |-> c.max_age_hours, outcome |-> outcome,
                       raised |-> None, val |-> cleanup_count])
    ELSE Proceed(c, [c EXCEPT !.pc = "execute", !.session_id = Head(rest),
                              !.expired_sessions = Tail(rest),
                              !.cleanup_count = cleanup_count],
                 w)

\* cleanup_expired_sessions after its query: the rows last touched before
\* the cutoff of the call, in the order the database returned them
CleanupExpiredSessionsQueried ==
    \E c \in At("cleanup_expired_sessions", "query") :
        \E rows \in Orders(expired_sessions(World, c.cutoff)) :
            SweepOn(c, World, rows, "none", 0)

\* the close_session of the loop after its query: NotFoundError, which the
\* loop catches, or the status up to the commit
CleanupExpiredSessionsLoaded ==
    \E c \in At("cleanup_expired_sessions", "execute") :
        IF c.session_id \in DOMAIN db
        THEN Proceed(c, [c EXCEPT !.pc = "commit"],
                     update_conversation_status(World, c.session_id, "completed", now))
        ELSE SweepOn(c, World, c.expired_sessions, "none", c.cleanup_count)

\* the close_session of the loop after its commit: save and pop, then the
\* next session
SweepCommitted(c, outcomes) ==
    \E outcome \in outcomes \cup {"none"} :
        /\ outcome = "none" <=> c.session_id \notin DOMAIN context_managers
        /\ SweepOn(c, close_session_finish(World, c.session_id, TRUE, outcome),
                   c.expired_sessions, outcome, c.cleanup_count + 1)

CleanupExpiredSessionsCommitted ==
    \E c \in At("cleanup_expired_sessions", "commit") :
        SweepCommitted(c, WriteOutcomes)

\* export_session(db, session_id): get_session, then the export of the
\* manager that is registered
ExportSession ==
    \E sid \in Recorded :
        IF sid \in active_sessions
        THEN Atomic(World, [op |-> "export_session", session_id |-> sid,
                            raised |-> None, val |-> export_session(World, sid)])
        ELSE Start(Frame("export_session", "execute", sid), World)

\* export_session after the query of its get_session
ExportSessionLoaded ==
    \E c \in At("export_session", "execute") :
        LET r == get_session_load(World, c.session_id, now)
        IN Finish(c, r.w, [op |-> "export_session", session_id |-> c.session_id,
                           raised |-> r.raised,
                           val |-> IF r.raised # None THEN None
                                   ELSE export_session(r.w, c.session_id)])

\* the messages that a call in flight is still to add
unsent(c) ==
    CASE c.op = "send_message" /\ c.pc = "execute" -> 1
      [] c.op = "generate_response" /\ c.pc \in {"execute", "send_execute"} -> 2
      [] c.op = "generate_response"
             /\ c.pc \in {"send_commit", "generate", "execute_tool", "error_execute"} -> 1
      [] OTHER -> 0

\* the messages that the calls in flight are still to add to a conversation
Unsent(sid) ==
    LET adding == {c \in BagToSet(calls) : c.session_id = sid}
        sum[cs \in SUBSET adding] ==
            IF cs = {} THEN 0
            ELSE LET c == CHOOSE x \in cs : TRUE
                 IN CopiesIn(c, calls) * unsent(c) + sum[cs \ {c}]
    IN sum[adding]

\* send_message(db, conversation_id, content, role) up to the query
SendMessage ==
    \E sid \in Recorded, role \in Roles, content \in Contents :
        /\ Len(db[sid].messages) + Unsent(sid) < MaxMessages
        /\ Start([Frame("send_message", "execute", sid) EXCEPT
                      !.role = role, !.content = content],
                 World)

\* send_message after the query: NotFoundError, or the message and its
\* context item up to the commit
SendMessageLoaded ==
    \E c \in At("send_message", "execute") :
        LET r == send_message(World, c.session_id, c.role, c.content, now)
        IN IF r.raised # None
           THEN Finish(c, r.w, [op |-> "send_message", session_id |-> c.session_id,
                                raised |-> r.raised])
           ELSE Proceed(c, Frame("send_message", "commit", c.session_id), r.w)

\* send_message after the commit
SendMessageCommitted ==
    \E c \in At("send_message", "commit") :
        Finish(c, World, [op |-> "send_message", session_id |-> c.session_id,
                          raised |-> None])

\* update_conversation_status(db, conversation_id, ACTIVE), called on the
\* ConversationService: a conversation is taken up again
ReopenConversation ==
    \E sid \in Recorded :
        Start([Frame("update_conversation_status", "execute", sid) EXCEPT
                   !.status = "active"],
              World)

\* update_conversation_status after the query, up to the commit
UpdateConversationStatusLoaded ==
    \E c \in At("update_conversation_status", "execute") :
        IF c.session_id \in DOMAIN db
        THEN Proceed(c, [c EXCEPT !.pc = "commit"],
                     update_conversation_status(World, c.session_id, c.status, now))
        ELSE Finish(c, World, [op |-> "update_conversation_status",
                               session_id |-> c.session_id,
                               raised |-> Some("NotFoundError")])

\* update_conversation_status after the commit
UpdateConversationStatusCommitted ==
    \E c \in At("update_conversation_status", "commit") :
        Finish(c, World, [op |-> "update_conversation_status",
                          session_id |-> c.session_id, raised |-> None])

NextSession ==
    \/ TickIdle
    \/ CreateSession
    \/ CreateSessionFlushed
    \/ CreateSessionCommitted
    \/ GetSession
    \/ GetSessionLoaded
    \/ UpdateSession
    \/ UpdateSessionLoaded
    \/ UpdateSessionCommitted
    \/ CloseSession
    \/ CloseSessionLoaded
    \/ CloseSessionCommitted
    \/ ArchiveSession
    \/ ArchiveSessionLoaded
    \/ ArchiveSessionCommitted
    \/ CleanupExpiredSessions
    \/ CleanupExpiredSessionsQueried
    \/ CleanupExpiredSessionsLoaded
    \/ CleanupExpiredSessionsCommitted
    \/ ExportSession
    \/ ExportSessionLoaded
    \/ SendMessage
    \/ SendMessageLoaded
    \/ SendMessageCommitted
    \/ ReopenConversation
    \/ UpdateConversationStatusLoaded
    \/ UpdateConversationStatusCommitted

SpecSession == InitSession /\ [][NextSession]_vars

(***************************************************************************)
(* The conversation machine: the ConversationService on its own, the       *)
(* methods of its public interface called on one conversation.             *)
(***************************************************************************)
Statuses == {"paused", "active"}
UserMessages == {"hello"}
NoteKinds == {"note", "message"}
NoteImportances == {0, 10}

\* what ai_service.generate_response gives back: a reply with or without a
\* function call, or AIModelError, raised being the str() of the exception
AiReplies ==
    {[raised |-> None, content |-> "hi", function_calls |-> n] : n \in {0, 1}}
        \cup {[raised |-> Some("AI request failed: boom"), content |-> "",
                function_calls |-> 0]}

\* what tool_registry.execute_tool gives back: the result of the tool, or
\* ValidationError for a tool that raised or a name that is not registered,
\* raised being the str() of the exception; only a tool that is a coroutine
\* can suspend the call
ToolResults ==
    {[raised |-> None, result |-> "12:00", suspends |-> b] : b \in BOOLEAN}
        \cup {[raised |-> Some("Tool execution failed: boom"), result |-> "",
                suspends |-> b] : b \in BOOLEAN}
        \cup {[raised |-> Some("Tool not found: nope"), result |-> "",
                suspends |-> FALSE]}

\* f"I encountered an error: {str(e)}"
error_content(e) == "I encountered an error: " \o e

InitConversation ==
    /\ now = StartTime
    /\ mgr = NewContextManager("s1", None, StartTime)
    /\ nextId = 1
    /\ ret = [op |-> "init"]
    /\ \E prior \in PriorWorlds :
           /\ prior.files = <<>>
           /\ db = prior.db
           /\ files = prior.files
    /\ heap = <<>>
    /\ active_sessions = {}
    /\ context_managers = <<>>
    /\ conversation_managers = <<>>
    /\ calls = EmptyBag

\* create_conversation(db, system_prompt=...) up to the flush
CreateConversation ==
    \E sid \in NewKeys, system_prompt \in SystemPrompts :
        Start([Frame("create_conversation", "flush", sid) EXCEPT
                   !.system_prompt = system_prompt],
              create_conversation_add(World, sid, now))

\* create_conversation from the flush to the commit
CreateConversationFlushed ==
    \E c \in At("create_conversation", "flush") :
        Proceed(c, [c EXCEPT !.pc = "commit"],
                create_conversation_register(World, c.session_id, c.system_prompt, now))

\* create_conversation after the commit
CreateConversationCommitted ==
    \E c \in At("create_conversation", "commit") :
        Finish(c, World, [op |-> "create_conversation", session_id |-> c.session_id,
                          system_prompt |-> c.system_prompt, raised |-> None])

\* get_conversation(db, conversation_id) up to the query
GetConversation ==
    \E sid \in Nameable : Start(Frame("get_conversation", "execute", sid), World)

\* get_conversation after the query
GetConversationLoaded ==
    \E c \in At("get_conversation", "execute") :
        IF c.session_id \in DOMAIN db
        THEN Finish(c, get_conversation(World, c.session_id, now),
                    [op |-> "get_conversation", session_id |-> c.session_id,
                     raised |-> None])
        ELSE Finish(c, World, [op |-> "get_conversation", session_id |-> c.session_id,
                               raised |-> Some("NotFoundError")])

\* update_conversation_status(db, conversation_id, status) up to the query
UpdateConversationStatus ==
    \E sid \in Recorded, status \in Statuses :
        Start([Frame("update_conversation_status", "execute", sid) EXCEPT
                   !.status = status],
              World)

\* what generate_response returns or raises
Generated(c, w, raised) ==
    Finish(c, w, [op |-> "generate_response", session_id |-> c.session_id,
                  raised |-> raised])

\* generate_response(db, conversation_id, user_message) up to the query of
\* its get_conversation
GenerateResponse ==
    \E sid \in Recorded, user_message \in UserMessages :
        /\ Len(db[sid].messages) + Unsent(sid) < MaxMessages
        /\ Start([Frame("generate_response", "execute", sid) EXCEPT
                      !.content = user_message],
                 World)

\* generate_response after that query, up to the query of its send_message
GenerateResponseLoaded ==
    \E c \in At("generate_response", "execute") :
        IF c.session_id \in DOMAIN db
        THEN Proceed(c, [c EXCEPT !.pc = "send_execute"],
                     get_conversation(World, c.session_id, now))
        ELSE Generated(c, World, Some("NotFoundError"))

\* the send_message of the user message, after its query, up to its commit
GenerateResponseSent ==
    \E c \in At("generate_response", "send_execute") :
        Proceed(c, Frame("generate_response", "send_commit", c.session_id),
                send_message(World, c.session_id, "user", c.content, now).w)

\* after the commit of the user message: the messages for the model are
\* prepared, up to the call of the model
GenerateResponsePrepared ==
    \E c \in At("generate_response", "send_commit") :
        IF prepare_ai_messages_raises(heap[conversation_managers[c.session_id]], now)
        THEN Generated(c, World, Some("TypeError"))
        ELSE Proceed(c, [c EXCEPT !.pc = "generate"], World)

\* execute_tool has returned or raised: the result and the reply are stored
\* up to the commit, or the exception sends the error message
ToolRan(c, tool, content) ==
    IF tool.raised # None
    THEN Proceed(c, [c EXCEPT !.pc = "error_execute",
                              !.content = error_content(tool.raised[1])],
                 World)
    ELSE Proceed(c, Frame("generate_response", "commit", c.session_id),
                 generate_single_response_message(
                     generate_single_response_tool(World, c.session_id,
                                                   tool.result, now),
                     c.session_id, content, now))

\* the model has answered: an exception sends the error message, a function
\* call runs the tool, which suspends the call or not, a plain reply is
\* stored up to the commit
GenerateResponseReplied ==
    \E c \in At("generate_response", "generate"), reply \in AiReplies :
        IF reply.raised # None
        THEN Proceed(c, [c EXCEPT !.pc = "error_execute",
                                  !.content = error_content(reply.raised[1])],
                     World)
        ELSE IF reply.function_calls > 0
        THEN \E tool \in ToolResults :
                 IF tool.suspends
                 THEN Proceed(c, [c EXCEPT !.pc = "execute_tool",
                                           !.content = reply.content],
                              World)
                 ELSE ToolRan(c, tool, reply.content)
        ELSE Proceed(c, [c EXCEPT !.pc = "commit"],
                     generate_single_response_message(World, c.session_id,
                                                      reply.content, now))

\* the tool that suspended the call has run
GenerateResponseToolRan ==
    \E c \in At("generate_response", "execute_tool") :
        \E tool \in {x \in ToolResults : x.suspends} : ToolRan(c, tool, c.content)

\* generate_response after the commit of the reply
GenerateResponseCommitted ==
    \E c \in At("generate_response", "commit") : Generated(c, World, None)

\* the send_message of the error message, after its query, up to its commit
GenerateResponseErrorSent ==
    \E c \in At("generate_response", "error_execute") :
        Proceed(c, Frame("generate_response", "error_commit", c.session_id),
                send_message(World, c.session_id, "assistant", c.content, now).w)

\* generate_response after the commit of the error message
GenerateResponseErrorCommitted ==
    \E c \in At("generate_response", "error_commit") : Generated(c, World, None)

\* add_conversation_context(conversation_id, content, context_type, importance)
AddConversationContext ==
    \E sid \in Recorded, context_type \in NoteKinds, importance \in NoteImportances :
        /\ nextId <= MaxNotes
        /\ Atomic(add_conversation_context(World, sid, "hello", context_type,
                                           importance, None, now),
                  [op |-> "add_conversation_context", session_id |-> sid,
                   raised |-> None])

\* cleanup_conversation_context(conversation_id)
CleanupConversationContext ==
    \E sid \in Recorded :
        Atomic(cleanup_conversation_context(World, sid, now),
               [op |-> "cleanup_conversation_context", session_id |-> sid,
                raised |-> None])

\* get_conversation_context_summary(conversation_id)
GetConversationContextSummary ==
    \E sid \in Nameable :
        Atomic(World, [op |-> "get_conversation_context_summary",
                       session_id |-> sid, raised |-> None,
                       val |-> get_conversation_context_summary(World, sid, now)])

NextConversation ==
    \/ CreateConversation
    \/ CreateConversationFlushed
    \/ CreateConversationCommitted
    \/ GetConversation
    \/ GetConversationLoaded
    \/ UpdateConversationStatus
    \/ UpdateConversationStatusLoaded
    \/ UpdateConversationStatusCommitted
    \/ SendMessage
    \/ SendMessageLoaded
    \/ SendMessageCommitted
    \/ GenerateResponse
    \/ GenerateResponseLoaded
    \/ GenerateResponseSent
    \/ GenerateResponsePrepared
    \/ GenerateResponseReplied
    \/ GenerateResponseToolRan
    \/ GenerateResponseCommitted
    \/ GenerateResponseErrorSent
    \/ GenerateResponseErrorCommitted
    \/ AddConversationContext
    \/ CleanupConversationContext
    \/ GetConversationContextSummary

SpecConversation == InitConversation /\ [][NextConversation]_vars

(***************************************************************************)
(* The pair machine: one SessionManager and its ConversationService        *)
(* serving two sessions, created here or left idle by an earlier process;  *)
(* the calls on one session follow one another, the calls on different     *)
(* sessions and the sweep interleave at their awaits, with the calls on    *)
(* the ContextManager of a session in between.  The file system works.     *)
(***************************************************************************)
PairImportances == {5}
PairUpdates == {9}

\* the session that receives the calls on its ContextManager and is
\* archived; the other one is created, loaded, closed and swept, and has the
\* item of its recorded message
Operated == {"s1"}

\* what an earlier process left: nothing, or both conversations, active and
\* last touched before the idle period that has gone by since, the one that
\* is not operated on with a message
PairWorlds ==
    LET row(sid) == [status |-> "active", updated_at |-> StartTime,
                     messages |-> IF sid \in Operated THEN <<>>
                                  ELSE <<[role |-> "user", content |-> "hello"]>>]
    IN {<<>>, [sid \in SessionKeys |-> row(sid)]}

\* the item ids the machine hands out: one for each recorded message that
\* get_conversation loads, and MaxPairAdds for the adds
PairIds ==
    MaxPairAdds + Cardinality({sid \in DOMAIN db : db[sid].messages # <<>>})

InitPair ==
    /\ now = StartTime + IdleStep
    /\ mgr = NewContextManager("s1", None, StartTime)
    /\ nextId = 1
    /\ ret = [op |-> "init"]
    /\ db \in PairWorlds
    /\ files = <<>>
    /\ heap = <<>>
    /\ active_sessions = {}
    /\ context_managers = <<>>
    /\ conversation_managers = <<>>
    /\ calls = EmptyBag

\* no call on the session is in flight: the calls on one session follow one
\* another, those on different sessions interleave
Free(sid) == \A c \in BagToSet(calls) : c.session_id # sid

\* create_session(db) up to the flush of create_conversation, the database
\* drawing either id
CreatePair ==
    \E sid \in SessionKeys \ DOMAIN db :
        Start(Frame("create_session", "flush", sid),
              create_conversation_add(World, sid, now))

\* get_session(db, session_id) of a recorded session: the cache check, and
\* the query when the session is not in the cache
GetPair ==
    \E sid \in Recorded :
        /\ Free(sid)
        /\ IF sid \in active_sessions
           THEN Atomic(World, [op |-> "get_session", session_id |-> sid,
                               resident |-> TRUE, raised |-> None])
           ELSE Start(Frame("get_session", "execute", sid), World)

\* add_conversation_context(conversation_id, content, context_type, importance)
AddPair ==
    \E sid \in Recorded \cap Operated, importance \in PairImportances :
        /\ Free(sid)
        /\ nextId <= PairIds
        /\ Atomic(add_conversation_context(World, sid, "hello", "message", importance,
                                           None, now),
                  [op |-> "add", session_id |-> sid])

\* a call on a ContextManager that every session of the ConversationService
\* shares
OnManager_shared(sid, op, m) ==
    /\ Free(sid)
    /\ Atomic([World EXCEPT
                   !.heap = [a \in DOMAIN @ |->
                                IF \E k \in DOMAIN conversation_managers :
                                       conversation_managers[k] = a
                                THEN m ELSE @[a]]],
              [op |-> op, session_id |-> sid])

\* a call on the ContextManager the ConversationService holds for a session
OnManager(sid, op, m) ==
    /\ Free(sid)
    /\ Atomic([World EXCEPT !.heap[conversation_managers[sid]] = m],
              [op |-> op, session_id |-> sid])

\* the ids of the items a session has in the ConversationService
Held(sid) ==
    {heap[conversation_managers[sid]].items[i].id :
        i \in 1..Len(heap[conversation_managers[sid]].items)}

\* update_context_importance(item_id, importance) of an item the session has
UpdatePair ==
    \E sid \in DOMAIN conversation_managers \cap Operated, importance \in PairUpdates :
        \E item_id \in Held(sid) :
            OnManager(sid, "update",
                      update_context_importance(heap[conversation_managers[sid]],
                                                item_id, importance))

\* remove_context(item_id) of an item the session has
RemovePair ==
    \E sid \in DOMAIN conversation_managers \cap Operated :
        \E item_id \in Held(sid) :
            OnManager(sid, "remove",
                      remove_context(heap[conversation_managers[sid]], item_id))

\* clear_context() of a session that has items
ClearPair ==
    \E sid \in DOMAIN conversation_managers \cap Operated :
        /\ Held(sid) # {}
        /\ OnManager(sid, "clear",
                     clear_context(heap[conversation_managers[sid]], None))

\* cleanup_conversation_context(conversation_id)
CleanupPair ==
    \E sid \in Recorded \cap Operated :
        /\ Free(sid)
        /\ Atomic(cleanup_conversation_context(World, sid, now),
                  [op |-> "cleanup", session_id |-> sid])

\* close_session(db, session_id) of a recorded session up to the query
ClosePair ==
    \E sid \in Recorded :
        /\ Free(sid)
        /\ Start([Frame("close_session", "execute", sid) EXCEPT !.save_context = TRUE],
                 World)

\* close_session after the commit, the write going through
ClosePairCommitted ==
    \E c \in At("close_session", "commit") : StatusCommitted(c, {"ok"})

\* archive_session(db, session_id) of a recorded session up to the query
ArchivePair ==
    \E sid \in Recorded \cap Operated :
        /\ Free(sid)
        /\ Start([Frame("archive_session", "execute", sid) EXCEPT
                      !.save_context = TRUE],
                 World)

\* archive_session after the commit, the write going through
ArchivePairCommitted ==
    \E c \in At("archive_session", "commit") : StatusCommitted(c, {"ok"})

\* the close_session of the sweep after its commit, the write going through
SweepPairCommitted ==
    \E c \in At("cleanup_expired_sessions", "commit") : SweepCommitted(c, {"ok"})

NextPair ==
    \/ CreatePair
    \/ CreateSessionFlushed
    \/ CreateSessionCommitted
    \/ GetPair
    \/ GetSessionLoaded
    \/ AddPair
    \/ UpdatePair
    \/ RemovePair
    \/ ClearPair
    \/ CleanupPair
    \/ ClosePair
    \/ CloseSessionLoaded
    \/ ClosePairCommitted
    \/ ArchivePair
    \/ ArchiveSessionLoaded
    \/ ArchivePairCommitted
    \/ CleanupExpiredSessions
    \/ CleanupExpiredSessionsQueried
    \/ CleanupExpiredSessionsLoaded
    \/ SweepPairCommitted

SpecPair == InitPair /\ [][NextPair]_vars

(***************************************************************************)
(* The restart machine: the SessionManager of a new process over the       *)
(* database and the persistence directory an earlier process left behind,  *)
(* session "s1" recorded, with the methods that take the id of an existing *)
(* session.                                                                *)
(***************************************************************************)
InitAsync ==
    /\ now = StartTime
    /\ mgr = NewContextManager("s1", None, StartTime)
    /\ nextId = 1
    /\ ret = [op |-> "init"]
    /\ \E prior \in PriorWorlds :
           /\ "s1" \in DOMAIN prior.db
           /\ db = prior.db
           /\ files = prior.files
    /\ heap = <<>>
    /\ active_sessions = {}
    /\ context_managers = <<>>
    /\ conversation_managers = <<>>
    /\ calls = EmptyBag

NextAsync ==
    \/ GetSession
    \/ GetSessionLoaded
    \/ UpdateSession
    \/ UpdateSessionLoaded
    \/ UpdateSessionCommitted
    \/ CloseSession
    \/ CloseSessionLoaded
    \/ CloseSessionCommitted
    \/ ArchiveSession
    \/ ArchiveSessionLoaded
    \/ ArchiveSessionCommitted
    \/ ExportSession
    \/ ExportSessionLoaded

SpecAsync == InitAsync /\ [][NextAsync]_vars

(***************************************************************************)
(* Vocabulary of the properties, stated from the specification.            *)
(***************************************************************************)
ItemSet(items) == {items[i] : i \in 1..Len(items)}

StoredIds(items) == {items[i].id : i \in 1..Len(items)}

Expired(item, t) == item.expires_at # None /\ item.expires_at[1] < t

Age(item, t) == t - item.timestamp

\* the retention predicate of a policy
Retainable(cw, item, t) ==
    /\ ~Expired(item, t)
    /\ item.importance >= cw.importance_threshold
    /\ Age(item, t) <= cw.max_age_hours * MinutesPerHour

\* a is ranked no higher than b by (importance, then recency)
KeyAtMost(a, b) ==
    \/ a.importance < b.importance
    \/ a.importance = b.importance /\ a.timestamp <= b.timestamp

\* the items a cleanup pass of this step starts from
PreCleanupItems ==
    CASE ret'.op = "add" -> Append(mgr.items, ret'.item)
      [] ret'.op = "import" -> from_dicts(ret'.data.context_items)
      [] OTHER -> mgr.items

\* this step runs a cleanup pass
CleanupStep ==
    \/ ret'.op \in {"cleanup", "import", "export_import"}
    \/ ret'.op = "add" /\ ret'.cleaned

(***************************************************************************)
(* C1. After any cleanup pass (the one add_context triggers, an explicit   *)
(* one, or the one import_context runs) the manager stores at most         *)
(* max_items items.                                                        *)
(***************************************************************************)
C1_BoundedAfterCleanup ==
    CleanupRan => Len(mgr.items) <= mgr.context_window.max_items

\* a cleanup pass has just cut items that passed the retention predicate
C1_Witness ==
    /\ CleanupRan
    /\ ret.cut > 0
    /\ Len(mgr.items) = mgr.context_window.max_items

(***************************************************************************)
(* C2. Retention correctness: the items stored after a cleanup pass are    *)
(* items stored before it that satisfy the retention predicate at cleanup  *)
(* time; none of those is missing unless they outnumber max_items, and     *)
(* then exactly max_items of them are left.  Cleanup adds no item.         *)
(***************************************************************************)
C2_RetentionStep ==
    CleanupStep =>
        LET cw == mgr'.context_window
            before == ItemSet(PreCleanupItems)
            after == ItemSet(mgr'.items)
            passing == {item \in before : Retainable(cw, item, now)}
        IN /\ after \subseteq passing
           /\ Cardinality(after) = Min(Cardinality(passing), cw.max_items)
           /\ Len(mgr'.items) = Cardinality(after)

C2_RetentionCorrect == [][C2_RetentionStep]_vars

\* a cleanup pass has removed some items and kept others
C2_Witness ==
    /\ CleanupRan
    /\ ret.removed > ret.cut
    /\ mgr.items # <<>>

(***************************************************************************)
(* C3. Eviction order: when the items that pass the retention predicate    *)
(* outnumber max_items, the cleanup pass removes exactly the surplus, and  *)
(* no removed item is ranked above a surviving one by (importance, then    *)
(* recency): the survivors are the top max_items, whatever the insertion   *)
(* order.                                                                  *)
(***************************************************************************)
C3_EvictionStep ==
    CleanupStep =>
        LET cw == mgr'.context_window
            after == ItemSet(mgr'.items)
            passing == {item \in ItemSet(PreCleanupItems) : Retainable(cw, item, now)}
            evicted == passing \ after
        IN Cardinality(passing) > cw.max_items =>
               /\ Cardinality(evicted) = Cardinality(passing) - cw.max_items
               /\ Cardinality(after) = cw.max_items
               /\ \A e \in evicted : \A k \in after : KeyAtMost(e, k)

C3_EvictionOrder == [][C3_EvictionStep]_vars

\* a cleanup pass has cut two items and kept two, and the best item was not
\* the first one inserted
C3_Witness ==
    /\ ret.op = "cleanup"
    /\ ret.cut >= 2
    /\ Len(mgr.items) >= 2
    /\ \E i \in 1..Len(mgr.items) : mgr.items[i].id > mgr.context_window.max_items

(***************************************************************************)
(* C5. Cleanup is idempotent: a cleanup pass that follows another cleanup  *)
(* pass, with no operation and no passage of time in between, leaves the   *)
(* stored item set as it found it.                                         *)
(***************************************************************************)
C5_IdempotentStep ==
    (CleanupRan /\ ret'.op = "cleanup") => ItemSet(mgr'.items) = ItemSet(mgr.items)

C5_CleanupIdempotent == [][C5_IdempotentStep]_vars

\* a second cleanup pass in a row has run on a manager that the first one cut
\* down to max_items
C5_Witness ==
    /\ ret.op = "cleanup"
    /\ ret.again
    /\ Len(mgr.items) = mgr.context_window.max_items
    /\ nextId > Len(mgr.items) + 2

(***************************************************************************)
(* C4. Round trip: importing export_context() of a manager into a fresh    *)
(* manager at the same instant leaves the item set, field for field, that  *)
(* a cleanup pass would leave in the exported manager, under its policy.   *)
(***************************************************************************)
C4_RoundTripStep ==
    ret'.op = "export_import" =>
        /\ ItemSet(mgr'.items) = ItemSet(cleanup(mgr, now).items)
        /\ mgr'.context_window = mgr.context_window

C4_RoundTrip == [][C4_RoundTripStep]_vars

\* the round trip has kept an item that has an expiry time and dropped another
\* item
C4_Witness ==
    /\ ret.op = "export_import"
    /\ ret.removed > 0
    /\ \E i \in 1..Len(mgr.items) : mgr.items[i].expires_at # None

(***************************************************************************)
(* C6. Two-speed expiry: get_context never returns an item whose           *)
(* expires_at has passed; such an item stays stored (and exported) through *)
(* every operation that is not a cleanup pass, a removal or an import; a   *)
(* cleanup pass leaves no expired item in storage.  An item added with a   *)
(* ttl in the past is excluded by the very next get_context.               *)
(***************************************************************************)
C6_GetExcludesExpired ==
    ret.op = "get" => \A i \in 1..Len(ret.val) : ~Expired(ret.val[i], now)

C6_SweptByCleanup ==
    CleanupRan => \A item \in ItemSet(mgr.items) : ~Expired(item, now)

C6_ExportedWhileStored ==
    ret.op = "export" =>
        \A item \in ItemSet(mgr.items) :
            \E i \in 1..Len(ret.val.context_items) : ret.val.context_items[i].id = item.id

C6_StaysStoredStep ==
    (\/ ret'.op \in {"tick", "get", "export", "update"}
     \/ ret'.op = "add" /\ ~ret'.cleaned)
    => \A item \in ItemSet(mgr.items) :
           Expired(item, now') => \E j \in 1..Len(mgr'.items) : mgr'.items[j].id = item.id

C6_PastTtlStep ==
    (ret.op = "add" /\ Expired(ret.item, now) /\ ret'.op = "get")
    => \A i \in 1..Len(ret'.val) : ret'.val[i].id # ret.val

C6_TwoSpeedExpiry ==
    /\ [](C6_GetExcludesExpired /\ C6_SweptByCleanup /\ C6_ExportedWhileStored)
    /\ [][C6_StaysStoredStep /\ C6_PastTtlStep]_vars

\* an unfiltered, unlimited get_context has left out a stored item because it
\* is expired
C6_Witness ==
    /\ ret.op = "get"
    /\ ret.context_type = None
    /\ ret.min_importance = 0
    /\ ret.limit = None
    /\ \E item \in ItemSet(mgr.items) : Expired(item, now) /\ item \notin ItemSet(ret.val)
    /\ ret.val # <<>>

(***************************************************************************)
(* C7. get_context(kind, min_importance, limit) returns exactly the        *)
(* non-expired stored items of the kind with importance >= min_importance, *)
(* in descending (importance, recency) order, cut to the first             *)
(* min(limit, matches) items when a limit >= 0 is given.                   *)
(***************************************************************************)
C7_GetContract ==
    ret.op = "get" =>
        LET matches == {item \in ItemSet(mgr.items) :
                            /\ ~Expired(item, now)
                            /\ ret.context_type # None => item.type = ret.context_type[1]
                            /\ item.importance >= ret.min_importance}
            n == IF ret.limit = None THEN Cardinality(matches)
                 ELSE Min(ret.limit[1], Cardinality(matches))
            got == ItemSet(ret.val)
        IN /\ Len(ret.val) = n
           /\ Cardinality(got) = n
           /\ got \subseteq matches
           /\ \A i, j \in 1..Len(ret.val) : i < j => KeyAtMost(ret.val[j], ret.val[i])
           /\ \A left \in matches \ got : \A g \in got : KeyAtMost(left, g)

(***************************************************************************)
(* C8. Every stored item's importance lies in [0, 1].                      *)
(***************************************************************************)
C8_ImportanceInRange ==
    \A item \in ItemSet(mgr.items) :
        MinImportance <= item.importance /\ item.importance <= MaxImportance

(***************************************************************************)
(* C9. Right after import_context the manager has the snapshot's session   *)
(* and policy, every stored item comes from the snapshot, there are at     *)
(* most max_items of them and each satisfies the policy's retention        *)
(* predicate at import time.                                               *)
(***************************************************************************)
C9_ImportReplacesAndCleans ==
    ret.op = "import" =>
        /\ mgr.session_id = ret.data.session_id
        /\ mgr.context_window = ret.data.context_window
        /\ ItemSet(mgr.items) \subseteq ItemSet(from_dicts(ret.data.context_items))
        /\ Len(mgr.items) <= mgr.context_window.max_items
        /\ \A item \in ItemSet(mgr.items) : Retainable(mgr.context_window, item, now)

\* a stale snapshot was imported over a manager that held items under another
\* policy; the cleanup pass dropped part of the snapshot and kept the rest
C9_Witness ==
    /\ ret.op = "import"
    /\ ret.held > 0
    /\ ret.replaced
    /\ ret.removed > 0
    /\ mgr.items # <<>>
    /\ now > StartTime

(***************************************************************************)
(* C10. export_context changes nothing in the manager, and its snapshot    *)
(* carries the session id, the policy, last_cleanup and every stored item, *)
(* in storage order, whether or not a cleanup pass would keep it.          *)
(***************************************************************************)
C10_ExportStep ==
    ret'.op = "export" =>
        /\ mgr' = mgr
        /\ ret'.val.session_id = mgr.session_id
        /\ ret'.val.context_window = mgr.context_window
        /\ fromisoformat(ret'.val.last_cleanup) = mgr.last_cleanup
        /\ from_dicts(ret'.val.context_items) = mgr.items

C10_ExportIsFaithfulDump == [][C10_ExportStep]_vars

\* an export of a manager that stores more than max_items items, one of them
\* expired
C10_Witness ==
    /\ ret.op = "export"
    /\ Len(mgr.items) > mgr.context_window.max_items
    /\ \E item \in ItemSet(mgr.items) : Expired(item, now)
    /\ Len(ret.val.context_items) = Len(mgr.items)

(***************************************************************************)
(* C19. remove_context and update_context_importance answer false for an   *)
(* item id that is not stored and leave the manager as it was; for a       *)
(* stored id they answer true, and remove exactly that item, the others    *)
(* keeping their order (remove), or set that item's importance and change  *)
(* nothing else: not its timestamp, not its position, not another item     *)
(* (update).                                                               *)
(***************************************************************************)
C19_Positions(items, item_id) == {i \in 1..Len(items) : items[i].id = item_id}

C19_UnknownStep ==
    (ret'.op \in {"remove", "update"} /\ C19_Positions(mgr.items, ret'.item_id) = {})
    => ret'.val = FALSE /\ mgr' = mgr

C19_RemoveStep ==
    (ret'.op = "remove" /\ C19_Positions(mgr.items, ret'.item_id) # {})
    => /\ ret'.val = TRUE
       /\ Len(mgr'.items) = Len(mgr.items) - 1
       /\ \E i \in C19_Positions(mgr.items, ret'.item_id) :
              /\ \A j \in 1..(i - 1) : mgr'.items[j] = mgr.items[j]
              /\ \A j \in i..Len(mgr'.items) : mgr'.items[j] = mgr.items[j + 1]
       /\ [mgr' EXCEPT !.items = <<>>] = [mgr EXCEPT !.items = <<>>]

C19_UpdateStep ==
    (ret'.op = "update" /\ C19_Positions(mgr.items, ret'.item_id) # {})
    => /\ ret'.val = TRUE
       /\ Len(mgr'.items) = Len(mgr.items)
       /\ \A j \in 1..Len(mgr.items) :
              /\ mgr'.items[j].id = mgr.items[j].id
              /\ mgr'.items[j].timestamp = mgr.items[j].timestamp
              /\ [mgr'.items[j] EXCEPT !.importance = 0]
                     = [mgr.items[j] EXCEPT !.importance = 0]
              /\ mgr'.items[j].importance =
                     IF mgr.items[j].id = ret'.item_id THEN ret'.importance
                     ELSE mgr.items[j].importance
       /\ [mgr' EXCEPT !.items = <<>>] = [mgr EXCEPT !.items = <<>>]

C19_NotFoundIsAResult == [][C19_UnknownStep /\ C19_RemoveStep /\ C19_UpdateStep]_vars

\* the second of two stored items has just been given a new importance, and
\* the first one still has the other importance
C19_Witness ==
    /\ ret.op = "update"
    /\ ret.val
    /\ Len(mgr.items) = 2
    /\ mgr.items[2].id = ret.item_id
    /\ mgr.items[2].importance = ret.importance
    /\ mgr.items[1].importance # ret.importance

(***************************************************************************)
(* Vocabulary of the session properties.                                   *)
(***************************************************************************)
\* the session is resident in the SessionManager
Resident(sid) == sid \in active_sessions \/ sid \in DOMAIN context_managers

\* the addresses of the manager objects that back a session in memory
Backing(sid) ==
    {context_managers[k] : k \in DOMAIN context_managers \cap {sid}}
        \cup {conversation_managers[k] : k \in DOMAIN conversation_managers \cap {sid}}

\* this step is a close or an archive that returned
ClosingStep == ret'.op \in {"close_session", "archive_session"} /\ ret'.raised = None

(***************************************************************************)
(* C11. A close with save_context, or an archive, of a resident session    *)
(* writes the export of its manager under the session id (when the write   *)
(* succeeds) and then forgets the session; a close without save_context    *)
(* leaves the files alone; after either call no context manager for the    *)
(* id is left in memory, in any registry.                                  *)
(***************************************************************************)
C11_CloseStep ==
    ClosingStep =>
        LET sid == ret'.session_id
        IN /\ (ret'.save_context /\ ret'.outcome = "ok" /\ sid \in DOMAIN context_managers)
                  => /\ sid \in DOMAIN files'
                     /\ files'[sid].defect = "none"
                     /\ files'[sid].data.session_id = sid
                     /\ from_dicts(files'[sid].data.context_items)
                            = heap[context_managers[sid]].items
           /\ ~ret'.save_context => files' = files
           /\ sid \notin active_sessions'
           /\ sid \notin DOMAIN context_managers'
           /\ sid \notin DOMAIN conversation_managers'

C11_CloseForgetsSession == [][C11_CloseStep]_vars

(***************************************************************************)
(* C12. When the write of the snapshot fails during a close (the file      *)
(* cannot be opened, or the dump breaks off), the close still returns and  *)
(* the session and its manager are gone from the SessionManager's          *)
(* collections.                                                            *)
(***************************************************************************)
C12_FailedWriteStep ==
    (/\ ClosingStep
     /\ ret'.save_context
     /\ ret'.outcome # "ok"
     /\ ret'.session_id \in DOMAIN context_managers)
    => /\ ret'.session_id \notin active_sessions'
       /\ ret'.session_id \notin DOMAIN context_managers'
       /\ context_managers[ret'.session_id] \notin DOMAIN heap'

C12_NoRaise ==
    (ret.op \in {"close_session", "archive_session"} /\ ret.resident) => ret.raised = None

C12_FailedWriteStillCloses == []C12_NoRaise /\ [][C12_FailedWriteStep]_vars

\* a close of a resident session has returned after its dump broke off and
\* left an unreadable file; the session is no longer resident
C12_Witness ==
    /\ ret.op = "close_session"
    /\ ret.resident
    /\ ret.save_context
    /\ ret.outcome = "dump_fails"
    /\ ret.raised = None
    /\ ret.session_id \in DOMAIN files
    /\ files[ret.session_id].defect = "unreadable"
    /\ ~Resident(ret.session_id)

(***************************************************************************)
(* C13. get_session on a recorded session.  Resident: nothing changes, no  *)
(* file is read.  Not resident, with an intact file: a new manager is      *)
(* built, the file is imported into it, and it is registered.  Not         *)
(* resident, no file: a new empty manager with the default policy is       *)
(* registered.  Afterwards the session is resident and the SessionManager  *)
(* holds one live manager for it.  Files are never written.                *)
(***************************************************************************)
C13_GetStep ==
    (ret'.op = "get_session" /\ ret'.session_id \in DOMAIN db) =>
        LET sid == ret'.session_id
            a == context_managers'[sid]
            m == heap'[a]
        IN /\ ret'.raised = None
           /\ files' = files
           /\ sid \in active_sessions'
           /\ sid \in DOMAIN context_managers'
           /\ a \in DOMAIN heap'
           /\ a \notin {conversation_managers'[k] : k \in DOMAIN conversation_managers'}
           /\ sid \in active_sessions =>
                  /\ context_managers' = context_managers
                  /\ heap' = heap
                  /\ active_sessions' = active_sessions
                  /\ conversation_managers' = conversation_managers
           /\ sid \notin active_sessions =>
                  /\ a \notin DOMAIN heap
                  /\ m.session_id = sid
                  /\ (sid \in DOMAIN files /\ files[sid].defect = "none") =>
                         LET data == files[sid].data
                             passing == {item \in ItemSet(from_dicts(data.context_items)) :
                                            Retainable(data.context_window, item, now)}
                         IN /\ m.context_window = data.context_window
                            /\ ItemSet(m.items) \subseteq passing
                            /\ Len(m.items) = Min(Cardinality(passing),
                                                  data.context_window.max_items)
                            /\ m.last_cleanup = fromisoformat(data.last_cleanup)
                  /\ sid \notin DOMAIN files =>
                         /\ m.items = <<>>
                         /\ m.context_window = DefaultContextWindow
                         /\ m.last_cleanup = now

C13_GetOrLoad == [][C13_GetStep]_vars

(***************************************************************************)
(* C14. get_session on a session whose file is damaged (unreadable, or     *)
(* with a bad policy, a bad item or a bad last_cleanup) returns normally   *)
(* and registers a fresh manager: no items, the default policy, nothing of *)
(* the file in it.                                                         *)
(***************************************************************************)
C14_DamagedFileGivesFresh ==
    (/\ ret.op = "get_session"
     /\ ~ret.resident
     /\ ret.session_id \in DOMAIN files
     /\ files[ret.session_id].defect # "none")
    => /\ ret.raised = None
       /\ ret.session_id \in DOMAIN context_managers
       /\ heap[context_managers[ret.session_id]].items = <<>>
       /\ heap[context_managers[ret.session_id]].context_window = DefaultContextWindow

(***************************************************************************)
(* C15. cleanup_expired_sessions(max_age_hours) closes exactly the         *)
(* resident sessions whose last touch (updated_at) is older than the       *)
(* threshold: those are the sessions its query selects; a resident session *)
(* it does not close stays resident with its manager untouched; when the   *)
(* sweep returns no resident session is idle past the threshold.           *)
(***************************************************************************)
C15_Idle(sid, max_age_hours, t) ==
    db[sid].updated_at < t - max_age_hours * MinutesPerHour

\* the call of this frame takes a step
C15_Moves(c) == CopiesIn(c, calls') < CopiesIn(c, calls)

\* the sessions a sweep that comes back from its query is going to close
C15_Selected ==
    UNION {{c.session_id} \cup ItemSet(c.expired_sessions) :
              c \in {x \in BagToSet(calls') : CopiesIn(x, calls') > CopiesIn(x, calls)}}

\* the sweep selects the resident sessions that are idle past the threshold
C15_QueryStep ==
    \A c \in At("cleanup_expired_sessions", "query") :
        C15_Moves(c) =>
            C15_Selected = {sid \in active_sessions : C15_Idle(sid, c.max_age_hours, now)}

\* the close of one selected session leaves the other resident sessions and
\* their managers alone
C15_CloseStep ==
    \A c \in At("cleanup_expired_sessions", "execute")
                 \cup At("cleanup_expired_sessions", "commit") :
        C15_Moves(c) =>
            \A sid \in (active_sessions \cap DOMAIN context_managers) \ {c.session_id} :
                /\ sid \in active_sessions'
                /\ sid \in DOMAIN context_managers'
                /\ heap'[context_managers'[sid]] = heap[context_managers[sid]]

\* when the sweep returns, no resident session is idle past the threshold
C15_ReturnStep ==
    ret'.op = "cleanup_expired_sessions" =>
        \A sid \in active_sessions' :
            ~(db'[sid].updated_at < now' - ret'.max_age_hours * MinutesPerHour)

C15_SweepClosesIdle == [][C15_QueryStep /\ C15_CloseStep /\ C15_ReturnStep]_vars

(***************************************************************************)
(* C16. Persist then restore: the snapshot that a close with save_context, *)
(* an archive or a sweep writes for a session holds every item that was    *)
(* added to the session before the close, and the next get_session builds  *)
(* the manager from that snapshot: its items are the snapshot's, minus     *)
(* what the cleanup after the import evicts.                               *)
(***************************************************************************)
C16_ItemsOf(sid) ==
    UNION {ItemSet(heap[a].items) : a \in Backing(sid)}

C16_PersistStep ==
    \A sid \in DOMAIN context_managers :
        (/\ ret'.op \in {"close_session", "archive_session", "cleanup_expired_sessions"}
         /\ ret'.raised = None
         /\ ret'.outcome = "ok"
         /\ ret'.op = "close_session" => ret'.save_context
         /\ sid \notin DOMAIN context_managers')
        => /\ sid \in DOMAIN files'
           /\ files'[sid].defect = "none"
           /\ C16_ItemsOf(sid) \subseteq ItemSet(from_dicts(files'[sid].data.context_items))

C16_RestoreStep ==
    (/\ ret'.op = "get_session"
     /\ ret'.raised = None
     /\ ret'.session_id \notin active_sessions
     /\ ret'.session_id \in DOMAIN files
     /\ files[ret'.session_id].defect = "none")
    => LET data == files[ret'.session_id].data
           m == heap'[context_managers'[ret'.session_id]]
       IN ItemSet(m.items)
              = ItemSet(cleanup([items |-> from_dicts(data.context_items),
                                 context_window |-> data.context_window], now).items)

C16_PersistThenRestore == [][C16_PersistStep /\ C16_RestoreStep]_vars

(***************************************************************************)
(* C17. create_session registers, in the SessionManager, a new manager     *)
(* with the default policy (100 items, 24 hours, 0.1); when a system       *)
(* prompt is given that manager holds exactly one item, of kind            *)
(* "system_prompt" and importance 1.0, and otherwise it holds no item.     *)
(***************************************************************************)
C17_CreateSeedsManager ==
    ret.op = "create_session" =>
        /\ ret.session_id \in DOMAIN context_managers
        /\ LET m == heap[context_managers[ret.session_id]]
           IN /\ m.context_window =
                     [max_items |-> 100, max_age_hours |-> 24, importance_threshold |-> 1]
              /\ (ret.system_prompt = None) => m.items = <<>>
              /\ (ret.system_prompt # None) =>
                     /\ Len(m.items) = 1
                     /\ m.items[1].type = "system_prompt"
                     /\ m.items[1].importance = 10

(***************************************************************************)
(* C18. Every session is backed in memory by at most one ContextManager    *)
(* object, and a resident session by exactly one: the registry of the      *)
(* SessionManager and the registry of the ConversationService never hold   *)
(* two different objects for one session id.                               *)
(***************************************************************************)
C18_OneManagerPerSession ==
    \A sid \in SessionKeys :
        /\ Cardinality(Backing(sid)) <= 1
        /\ Resident(sid) => Cardinality(Backing(sid)) = 1

(***************************************************************************)
(* C20. close_session, archive_session and get_session on an id that is    *)
(* neither resident nor recorded return normally, the condition being a    *)
(* result value, and leave the registries as they were.                    *)
(***************************************************************************)
C20_UnknownStep ==
    (/\ ret'.op \in {"close_session", "archive_session", "get_session"}
     /\ ret'.session_id \notin DOMAIN db
     /\ ret'.session_id \notin active_sessions)
    => /\ ret'.raised = None
       /\ active_sessions' = active_sessions
       /\ context_managers' = context_managers
       /\ conversation_managers' = conversation_managers

C20_NothingIsFatal == [][C20_UnknownStep]_vars

(***************************************************************************)
(* C21. get_context_summary returns the text "No context available." in    *)
(* exactly the states where get_context() has nothing to show: on a        *)
(* manager without stored items, and on one whose stored items are all     *)
(* invisible to get_context.                                               *)
(***************************************************************************)
C21_SentinelIffNothingVisible ==
    ret.op = "summary"
    => (ret.val = "No context available."
        <=> get_context(mgr, None, MinImportance, None, now) = <<>>)

(***************************************************************************)
(* C22. For every max_length >= 0 the text get_context_summary(max_length) *)
(* returns is at most max_length long, and a summary that had to be cut    *)
(* ends with "...".                                                        *)
(***************************************************************************)
C22_SummaryWithinMaxLength ==
    ret.op = "summary"
    => /\ Len(ret.val) <= ret.max_length
       /\ ret.val # get_context_summary(mgr, DefaultMaxLength, now)
          => PySliceFrom(ret.val, -EllipsisLength) = "..."

(***************************************************************************)
(* C23. get_recent_context(hours, context_type) returns each stored item   *)
(* whose timestamp is not before now - hours and whose type matches (any   *)
(* type without a filter) exactly once, newest first; the importance and   *)
(* the expiry of an item play no part.                                     *)
(***************************************************************************)
C23_Recent(item) ==
    /\ item.timestamp >= now - timedelta_hours(ret.hours)
    /\ ret.context_type # None => item.type = ret.context_type[1]

C23_RecentContract ==
    ret.op = "recent"
    => /\ ItemSet(ret.val) = {item \in ItemSet(mgr.items) : C23_Recent(item)}
       /\ Len(ret.val) = Cardinality(ItemSet(ret.val))
       /\ \A i, j \in 1..Len(ret.val) :
              i < j => ret.val[i].timestamp >= ret.val[j].timestamp

\* both stored items are returned, the newer and less important one first,
\* the older one although it has expired
C23_Witness ==
    /\ ret.op = "recent"
    /\ Len(ret.val) = 2
    /\ ret.val[1].timestamp > ret.val[2].timestamp
    /\ ret.val[1].importance < ret.val[2].importance
    /\ Expired(ret.val[2], now)
    /\ get_context(mgr, None, MinImportance, None, now) # ret.val

(***************************************************************************)
(* C24. Every cleanup pass ends by setting last_cleanup to the current     *)
(* time, whether add_context triggered it, calling code ran _cleanup, or   *)
(* import_context ran it: after any of them last_cleanup is now, and after *)
(* the import of an older snapshot it is not the snapshot's value.         *)
(***************************************************************************)
C24_CleanupStampsTime == CleanupRan => mgr.last_cleanup = now

(***************************************************************************)
(* C25. add_context runs a cleanup pass exactly when at least 10 minutes   *)
(* have passed since last_cleanup (C25_AddAmortized); the claim as first   *)
(* stated says more than 10 minutes (C25_AddAfterInterval).  Without a     *)
(* pass the call appends one item under a fresh id and removes nothing, so *)
(* the count grows by one, past max_items if need be; a pass runs after    *)
(* the append, over the new item too.                                      *)
(***************************************************************************)
\* what an add_context step does when a pass is due, and when it is not
C25_AddStep(due) ==
    ret'.op = "add"
    => IF due
       THEN /\ mgr'.last_cleanup = now
            /\ ItemSet(mgr'.items) \subseteq ItemSet(mgr.items) \cup {ret'.item}
            /\ \A item \in ItemSet(mgr'.items) :
                   Retainable(mgr.context_window, item, now)
            /\ Len(mgr'.items) <= mgr.context_window.max_items
            /\ Len(mgr'.items) =
                   Min(mgr.context_window.max_items,
                       Cardinality({item \in ItemSet(mgr.items) \cup {ret'.item} :
                                        Retainable(mgr.context_window, item, now)}))
       ELSE /\ mgr'.items = Append(mgr.items, ret'.item)
            /\ ret'.item.id \notin StoredIds(mgr.items)
            /\ Len(mgr'.items) = Len(mgr.items) + 1
            /\ mgr'.last_cleanup = mgr.last_cleanup

C25_AddAfterInterval ==
    [][C25_AddStep(now - mgr.last_cleanup > timedelta_minutes(CleanupIntervalMinutes))]_vars

C25_AddAmortized ==
    [][C25_AddStep(now - mgr.last_cleanup >= timedelta_minutes(CleanupIntervalMinutes))]_vars

\* an add_context exactly 10 minutes after the construction ran the pass,
\* which removed the item just added and one stored before
C25_Witness ==
    /\ ret.op = "add"
    /\ now = StartTime + timedelta_minutes(CleanupIntervalMinutes)
    /\ mgr.last_cleanup = now
    /\ ret.item \notin ItemSet(mgr.items)
    /\ ret.removed >= 2

(***************************************************************************)
(* C26. Stored items leave a manager only through a cleanup pass,          *)
(* remove_context, clear_context or import_context.  get_context,          *)
(* get_recent_context, get_context_summary and export_context leave the    *)
(* manager as it is, and update_context_importance changes nothing but the *)
(* importance of the item it names: the same items in the same order, the  *)
(* same last_cleanup.                                                      *)
(***************************************************************************)
C26_Unscored(items) == [i \in 1..Len(items) |-> [items[i] EXCEPT !.importance = 0]]

C26_FrameStep ==
    /\ ret'.op \in {"get", "recent", "summary", "export"} => mgr' = mgr
    /\ ret'.op = "update"
       => /\ C26_Unscored(mgr'.items) = C26_Unscored(mgr.items)
          /\ mgr'.last_cleanup = mgr.last_cleanup
          /\ mgr'.context_window = mgr.context_window
    /\ ~(StoredIds(mgr.items) \subseteq StoredIds(mgr'.items))
       => \/ ret'.op \in {"cleanup", "remove", "clear", "import", "export_import"}
          \/ ret'.op = "add" /\ ret'.cleaned

C26_OnlyNamedPathsRemove == [][C26_FrameStep]_vars

\* update_context_importance has just changed the importance of the first of
\* two stored items, an expired one that no pass has swept yet
C26_Witness ==
    /\ ret.op = "update"
    /\ ret.val
    /\ Len(mgr.items) = 2
    /\ mgr.items[1].id = ret.item_id
    /\ mgr.items[1].importance = ret.importance
    /\ Expired(mgr.items[1], now)
    /\ mgr.last_cleanup < now

(***************************************************************************)
(* C27. Sessions are isolated: every step of a call on one session (add,   *)
(* update of an importance, remove, clear, cleanup, get_session, close,    *)
(* archive, the close inside a sweep), however the calls on the other      *)
(* session interleave with it, leaves unchanged what the other session     *)
(* has: the items and the policy of its managers, its residency and its    *)
(* file.                                                                   *)
(***************************************************************************)
C27_Object(registry, sid) ==
    IF sid \in DOMAIN registry THEN Some(heap[registry[sid]]) ELSE None

C27_Has(sid) ==
    [resident |-> sid \in active_sessions,
     session_manager |-> C27_Object(context_managers, sid),
     conversation_service |-> C27_Object(conversation_managers, sid),
     snapshot |-> IF sid \in DOMAIN files THEN Some(files[sid]) ELSE None]

\* the frames of the calls that take this step, and of those it starts
C27_Left == {c \in BagToSet(calls) : CopiesIn(c, calls') < CopiesIn(c, calls)}
C27_Entered == {c \in BagToSet(calls') : CopiesIn(c, calls') > CopiesIn(c, calls)}

\* the session this step works on: that of the call that goes on, starts, or
\* runs without an await
C27_Acting ==
    IF C27_Left # {} THEN {c.session_id : c \in C27_Left}
    ELSE IF C27_Entered # {} THEN {c.session_id : c \in C27_Entered}
    ELSE IF "session_id" \in DOMAIN ret' THEN {ret'.session_id}
    ELSE {}

C27_IsolationStep ==
    \A other \in SessionKeys \ C27_Acting : C27_Has(other)' = C27_Has(other)

C27_SessionsIsolated == [][C27_IsolationStep]_vars

\* an item of "s1" has just been removed, "s1" having been closed before and
\* its snapshot written, while "s2" is resident with a stored item and a call
\* on "s2" is suspended
C27_Witness ==
    /\ ret.op = "remove"
    /\ ret.session_id = "s1"
    /\ \E c \in BagToSet(calls) : c.session_id = "s2"
    /\ "s1" \in DOMAIN files
    /\ "s2" \in active_sessions
    /\ "s2" \in DOMAIN conversation_managers
    /\ heap[conversation_managers["s2"]].items # <<>>

(***************************************************************************)
(* C28. The resident set of the SessionManager is a set of pairs: whatever *)
(* the interleaving of get_session, update_session, close_session and      *)
(* archive_session at their awaits, a session id is a key of               *)
(* _active_sessions exactly when it is a key of _context_managers; an      *)
(* update_session overlapping a close does not put the session back.       *)
(***************************************************************************)
C28_ResidentPairs ==
    \A sid \in SessionKeys :
        sid \in active_sessions <=> sid \in DOMAIN context_managers

(***************************************************************************)
(* C29. Overlapping get_session calls for a session that is not resident   *)
(* register one manager: the call that comes back from the query first     *)
(* builds the manager, imports the file into it and registers it under a   *)
(* new address; a call that comes back and finds a manager registered      *)
(* leaves registry and manager alone; when such a get_session returns the  *)
(* session is in the cache and has its manager.  (What a damaged file      *)
(* leaves in the manager is the subject of C14.)                           *)
(***************************************************************************)
C29_LoadStep ==
    (ret'.op = "get_session" /\ ~ret'.resident /\ ret'.raised = None)
    => LET sid == ret'.session_id
       IN IF sid \in DOMAIN context_managers
          THEN /\ context_managers' = context_managers
               /\ heap'[context_managers[sid]] = heap[context_managers[sid]]
          ELSE /\ sid \in DOMAIN context_managers'
               /\ context_managers'[sid] \notin DOMAIN heap
               /\ LET m == heap'[context_managers'[sid]]
                  IN /\ (sid \in DOMAIN files /\ files[sid].defect = "none") =>
                            /\ ItemSet(m.items) =
                                   {item \in ItemSet(from_dicts(files[sid].data.context_items)) :
                                       Retainable(files[sid].data.context_window, item, now)}
                            /\ m.context_window = files[sid].data.context_window
                     /\ sid \notin DOMAIN files => m.items = <<>>

C29_Returned ==
    (ret.op = "get_session" /\ ~ret.resident /\ ret.raised = None)
    => /\ ret.session_id \in active_sessions
       /\ ret.session_id \in DOMAIN context_managers

C29_OneManagerRegistered == []C29_Returned /\ [][C29_LoadStep]_vars

\* two calls overlapped: a get_session that had found the session not in the
\* cache has just come back from the query, found the manager the other
\* call registered meanwhile, and left it, with the item imported from the
\* file
C29_Witness ==
    /\ ret.op = "get_session"
    /\ ~ret.resident
    /\ ret.raised = None
    /\ ret.registered
    /\ "s1" \in DOMAIN files
    /\ files["s1"].defect = "none"
    /\ heap[context_managers["s1"]].items # <<>>

(***************************************************************************)
(* C30. The session_id inside a live ContextManager is the key it is       *)
(* registered under, and the snapshot in the file of session id carries    *)
(* session_id = id; import_context, which takes the session_id from the    *)
(* snapshot, keeps this for the files close_session and archive_session    *)
(* write.                                                                  *)
(***************************************************************************)
C30_SessionIdIsKey ==
    /\ \A sid \in DOMAIN context_managers :
           heap[context_managers[sid]].session_id = sid
    /\ \A sid \in DOMAIN conversation_managers :
           heap[conversation_managers[sid]].session_id = sid
    /\ \A sid \in DOMAIN files :
           files[sid].defect # "unreadable" => files[sid].data.session_id = sid

\* get_session has just loaded a session that was not resident from the
\* file a close_session of this process wrote (an empty snapshot; the files
\* of the earlier process hold two items)
C30_Witness ==
    /\ ret.op = "get_session"
    /\ ~ret.resident
    /\ ret.raised = None
    /\ ret.session_id \in DOMAIN files
    /\ files[ret.session_id].defect = "none"
    /\ files[ret.session_id].data.context_items = <<>>
    /\ ret.session_id \in DOMAIN context_managers
    /\ heap[context_managers[ret.session_id]].session_id = ret.session_id

====
